---- MODULE Spec2Model ----
(***************************************************************************)
(* Scheduling core of the flashcard application:                          *)
(* SpacedRepetitionManager.updateCardState (src/js/flashcard.js) applied   *)
(* to card states as StorageManager.getCardState hands them out.           *)
(*                                                                         *)
(* Number representation.  JavaScript numbers are modelled as records      *)
(* [k, v]: k = "num" carries the integer v, k = "nan" is NaN and           *)
(* k = "undef" is undefined (a missing field or a missing table entry).    *)
(* Decimal quantities are scaled to integers:                              *)
(*   easeFactor            in hundredths        (2.5      -> 250)          *)
(*   stored interval       in hundredths of day (0.25 day -> 25)           *)
(*   interval before the rounding of line 656, and every time stamp,       *)
(*                         in ticks of 1/900000 day (1 minute -> 625)      *)
(*   difficulty multiplier in tenths            (0.8      -> 8)            *)
(* 1/900000 day is the coarsest unit in which the presets 1/1440, 1/240,   *)
(* 1/144 and the product interval * easeFactor * multiplier are all        *)
(* integers, so the arithmetic below is exact decimal arithmetic.          *)
(***************************************************************************)
EXTENDS Integers, FiniteSets, Sequences, TLC

VARIABLES
    now,              \* the clock, in ticks
    cardState,        \* the card state the scheduler is applied to
    lastCall,         \* the last call of SpacedRepetitionManager.updateCardState
    preview,          \* the last calculateIntervals on the current card state
    store,            \* localStorage key CARDS: <<cardSetId, cardId>> -> card state
    lastUpdate,       \* the last call of FlashcardManager.updateCardState
    firstCreated,     \* createdAt of each state when it was first persisted
    expectedReviews,  \* stored totalReviews plus the calls completed since
    lastOp,           \* the operation that made the last step
    ops,              \* number of operations so far
    queueIn,          \* an array of cards with their states
    queueOut,         \* the last call on that array, and what it returned
    currentView,      \* AnkiApp.currentView
    studySession,     \* AnkiApp.studySession, NoSession for null
    flashcard,        \* the #flashcard element: its classes and its content
    transitions,      \* the calls of transitionToNextCard that wait on a
                      \* timer, the oldest first: the timer each waits on
    listeners,        \* how many times setupStudyInterface added its listeners
    sessionLog,       \* the cards shown and rated in the session, how it ended
    lastAnswer,       \* the last rating event: the card on display when it
                      \* occurred and the cards it rated
    stats,            \* localStorage key STATS
    lastRecord,       \* the last call of StorageManager.recordStudySession
    csvLine,          \* a line of a CSV file, a sequence of characters
    csvFields,        \* the last call of parseCSVLine and what it returned
    manager,          \* FlashcardManager: the fields of the card-set discovery
    discovery         \* the calls of getAvailableCardSets that wait on the
                      \* network, and what is known of the calls so far

schedVars == <<cardState, lastCall, preview>>
storeVars == <<store, lastUpdate, firstCreated, expectedReviews, lastOp, ops>>
queueVars == <<queueIn, queueOut>>
sessionVars == <<currentView, studySession, flashcard, transitions, listeners,
                 sessionLog, lastAnswer>>

statsVars == <<stats, lastRecord>>
csvVars == <<csvLine, csvFields>>
discoveryVars == <<manager, discovery>>

vars == <<now, schedVars, storeVars, queueVars, sessionVars, statsVars, csvVars, discoveryVars>>

\* what the steps of the scheduler, of the store and of the clock leave alone
notSched == <<storeVars, queueVars, sessionVars, statsVars, csvVars, discoveryVars>>
notStore == <<schedVars, queueVars, sessionVars, lastRecord, csvVars, discoveryVars>>
notClock == <<schedVars, storeVars, queueVars, sessionVars, statsVars, csvVars, discoveryVars>>
notQueue == <<schedVars, storeVars, sessionVars, statsVars, csvVars, discoveryVars>>
notSession == <<schedVars, queueVars, csvVars, discoveryVars>>
notStats == <<schedVars, storeVars, queueVars, sessionVars, csvVars, discoveryVars>>
notCsv == <<now, schedVars, storeVars, queueVars, sessionVars, statsVars,
           discoveryVars>>
notDiscovery == <<schedVars, storeVars, queueVars, sessionVars, statsVars, csvVars>>

-----------------------------------------------------------------------------
(* Bounds of the model *)

MaxReviews == 2
MaxDefaultReviews == 5
MaxOps == 3
MaxStoredInterval == 3000
MaxHalfDays == 2

-----------------------------------------------------------------------------
(* JavaScript values *)

Num(n) == [k |-> "num", v |-> n]
NaN == [k |-> "nan", v |-> 0]
Undefined == [k |-> "undef", v |-> 0]
Null == [k |-> "null", v |-> 0]

IsNum(x) == x.k = "num"

\* a - c, a + c, a * c with a number c: undefined converts to NaN, NaN propagates
JsSub(a, c) == IF IsNum(a) THEN Num(a.v - c) ELSE NaN
JsAdd(a, c) == IF IsNum(a) THEN Num(a.v + c) ELSE NaN
JsMul(a, b) == IF IsNum(a) /\ IsNum(b) THEN Num(a.v * b.v) ELSE NaN

\* Math.max(c, a), Math.min(c, a): NaN if an argument converts to NaN
MathMax(c, a) == IF IsNum(a) THEN Num(IF a.v > c THEN a.v ELSE c) ELSE NaN
MathMin(c, a) == IF IsNum(a) THEN Num(IF a.v < c THEN a.v ELSE c) ELSE NaN

\* (x || 0) for a counter field
OrZero(x) == IF IsNum(x) /\ x.v # 0 THEN x.v ELSE 0

-----------------------------------------------------------------------------
(* Units *)

\* 1440 minutes of 625 ticks
TicksPerDay == 1440 * 625
TicksPerHundredth == TicksPerDay \div 100
HalfDay == TicksPerDay \div 2

\* the model's clock counts ticks from 2023-12-31T00:00:00Z, day 19722 of the
\* Unix epoch
EpochDay == 19722

\* the UTC day of a time stamp, in days since 1970-01-01
DateOf(t) == EpochDay + t \div TicksPerDay

\* the proleptic Gregorian date of a day number, as Date.prototype.toISOString
\* prints it: <<year, month, day>> stands for the string YYYY-MM-DD
IsoDate(day) ==
    LET z   == day + 719468
        era == z \div 146097
        doe == z - era * 146097
        yoe == (doe - doe \div 1460 + doe \div 36524 - doe \div 146096) \div 365
        doy == doe - (365 * yoe + yoe \div 4 - yoe \div 100)
        mp  == (5 * doy + 2) \div 153
        d   == doy - (153 * mp + 2) \div 5 + 1
        m   == IF mp < 10 THEN mp + 3 ELSE mp - 9
        y   == yoe + era * 400 + (IF m <= 2 THEN 1 ELSE 0)
    IN  <<y, m, d>>

\* new Date(string): the day number of a YYYY-MM-DD string (UTC midnight)
DayOfIso(date) ==
    LET y   == IF date[2] <= 2 THEN date[1] - 1 ELSE date[1]
        era == y \div 400
        yoe == y - era * 400
        mp  == IF date[2] > 2 THEN date[2] - 3 ELSE date[2] + 9
        doy == (153 * mp + 2) \div 5 + date[3] - 1
        doe == yoe * 365 + yoe \div 4 - yoe \div 100 + doy
    IN  era * 146097 + doe - 719468

\* a <= b on two YYYY-MM-DD strings: the comparison of the zero-padded
\* strings character by character is the comparison of year, month, day
StringLeq(a, b) ==
    \/ a[1] < b[1]
    \/ a[1] = b[1] /\ a[2] < b[2]
    \/ a[1] = b[1] /\ a[2] = b[2] /\ a[3] <= b[3]

\* new Date().toISOString().split('T')[0]
Today(t) == IsoDate(DateOf(t))

-----------------------------------------------------------------------------
(* SpacedRepetitionManager constructor: the SM-2 constants *)

MINIMUM_EASE_FACTOR == 130
DEFAULT_EASE_FACTOR == 250
EASE_FACTOR_BONUS == 15
EASE_FACTOR_PENALTY == 20
EASE_FACTOR_CAP == 300

Difficulties == {"again", "hard", "good", "easy"}

\* DIFFICULTY_MULTIPLIERS with 1.2 for 'hard', more than for 'good'
DIFFICULTY_MULTIPLIERS_HardLonger(difficulty) ==
    CASE difficulty = "again" -> Num(0)
      [] difficulty = "hard"  -> Num(12)
      [] difficulty = "good"  -> Num(10)
      [] difficulty = "easy"  -> Num(13)
      [] OTHER                -> Undefined

\* this.DIFFICULTY_MULTIPLIERS[difficulty], in tenths
DIFFICULTY_MULTIPLIERS(difficulty) ==
    CASE difficulty = "again" -> Num(0)
      [] difficulty = "hard"  -> Num(8)
      [] difficulty = "good"  -> Num(10)
      [] difficulty = "easy"  -> Num(13)
      [] OTHER                -> Undefined

\* this.INITIAL_INTERVALS[difficulty], in ticks
INITIAL_INTERVALS(difficulty) ==
    CASE difficulty = "again" -> Num(TicksPerDay \div 1440)
      [] difficulty = "hard"  -> Num(TicksPerDay \div 240)
      [] difficulty = "good"  -> Num(TicksPerDay \div 144)
      [] difficulty = "easy"  -> Num(4 * TicksPerDay)
      [] OTHER                -> Undefined

-----------------------------------------------------------------------------
(* SpacedRepetitionManager.updateCardState, statement by statement *)

\* NewTotalReviews that leaves the counter as it was
NewTotalReviews_Kept(state) == state.totalReviews

\* line 608: newState.totalReviews = (newState.totalReviews || 0) + 1
NewTotalReviews(state) == Num(OrZero(state.totalReviews) + 1)

\* NewCorrectReviews counting every successful review, 'hard' included
NewCorrectReviews_CountsHard(state, difficulty) ==
    IF difficulty # "again"
    THEN Num(OrZero(state.correctReviews) + 1)
    ELSE state.correctReviews

\* lines 611-613: correctReviews grows for 'good' and 'easy' only
NewCorrectReviews(state, difficulty) ==
    IF difficulty = "good" \/ difficulty = "easy"
    THEN Num(OrZero(state.correctReviews) + 1)
    ELSE state.correctReviews

\* NewRepetitions without the reset of line 618
NewRepetitions_NoReset(state, difficulty) ==
    IF difficulty = "again"
    THEN state.repetitions
    ELSE Num(OrZero(state.repetitions) + 1)

\* lines 618 and 626
NewRepetitions(state, difficulty) ==
    IF difficulty = "again"
    THEN Num(0)
    ELSE Num(OrZero(state.repetitions) + 1)

\* updateEaseFactor without the cap of line 684
updateEaseFactor_NoCap(easeFactor, difficulty) ==
    LET switched ==
            CASE difficulty = "easy" -> JsAdd(easeFactor, EASE_FACTOR_BONUS)
              [] difficulty = "hard" ->
                    MathMax(MINIMUM_EASE_FACTOR, JsSub(easeFactor, EASE_FACTOR_PENALTY))
              [] OTHER -> easeFactor
    IN  MathMax(MINIMUM_EASE_FACTOR, switched)

\* lines 666-685: the switch, then the two clamps
updateEaseFactor(easeFactor, difficulty) ==
    LET switched ==
            CASE difficulty = "easy" -> JsAdd(easeFactor, EASE_FACTOR_BONUS)
              [] difficulty = "hard" ->
                    MathMax(MINIMUM_EASE_FACTOR, JsSub(easeFactor, EASE_FACTOR_PENALTY))
              [] OTHER -> easeFactor
    IN  MathMin(EASE_FACTOR_CAP, MathMax(MINIMUM_EASE_FACTOR, switched))

\* lines 620-623 ('again') and line 648 (every other difficulty)
NewEaseFactor(state, difficulty) ==
    IF difficulty = "again"
    THEN MathMax(MINIMUM_EASE_FACTOR, JsSub(state.easeFactor, EASE_FACTOR_PENALTY))
    ELSE updateEaseFactor(state.easeFactor, difficulty)

\* lines 633-635: the second successful review, in ticks
SecondInterval(difficulty) ==
    IF difficulty = "easy" THEN Num(4 * TicksPerDay)
    ELSE IF difficulty = "good" THEN Num(TicksPerDay)
    ELSE IF difficulty = "hard" THEN Num(TicksPerDay \div 4)
    ELSE Num(TicksPerDay)

\* line 639: interval * easeFactor * multiplier.  The stored interval is in
\* hundredths of a day, the ease in hundredths and the multiplier in tenths,
\* so the product is in 1/100000 day, which is 9 ticks.
MatureInterval(interval, easeFactor, difficulty) ==
    LET p == JsMul(JsMul(interval, easeFactor), DIFFICULTY_MULTIPLIERS(difficulty))
    IN  IF IsNum(p) THEN Num(p.v * 9) ELSE NaN

\* line 643: Math.max(interval, interval * 0.8)
HardFloor(x) ==
    IF ~IsNum(x) THEN NaN
    ELSE IF 10 * x.v >= 8 * x.v THEN x
    ELSE Num((8 * x.v) \div 10)

\* NewInterval without the branch of lines 631-635: the SM-2 product from the
\* second successful review on
NewInterval_NoSecondStep(state, difficulty) ==
    IF difficulty = "again"
    THEN INITIAL_INTERVALS("again")
    ELSE LET reps == NewRepetitions(state, difficulty).v
         IN  IF reps = 1 THEN INITIAL_INTERVALS(difficulty)
             ELSE LET m == MatureInterval(state.interval, state.easeFactor, difficulty)
                  IN  IF difficulty = "hard" THEN HardFloor(m) ELSE m

\* NewInterval with line 648 moved before line 639: the product uses the
\* easeFactor this call has already changed
NewInterval_EaseUpdatedFirst(state, difficulty) ==
    IF difficulty = "again"
    THEN INITIAL_INTERVALS("again")
    ELSE LET reps == NewRepetitions(state, difficulty).v
         IN  IF reps = 1 THEN INITIAL_INTERVALS(difficulty)
             ELSE IF reps = 2 THEN SecondInterval(difficulty)
             ELSE LET m == MatureInterval(state.interval,
                                          NewEaseFactor(state, difficulty), difficulty)
                  IN  IF difficulty = "hard" THEN HardFloor(m) ELSE m

\* lines 616-645: the interval before rounding, in ticks
NewInterval(state, difficulty) ==
    IF difficulty = "again"
    THEN INITIAL_INTERVALS("again")
    ELSE LET reps == NewRepetitions(state, difficulty).v
         IN  IF reps = 1 THEN INITIAL_INTERVALS(difficulty)
             ELSE IF reps = 2 THEN SecondInterval(difficulty)
             ELSE LET m == MatureInterval(state.interval, state.easeFactor, difficulty)
                  IN  IF difficulty = "hard" THEN HardFloor(m) ELSE m

\* line 656: Math.round(interval * 100) / 100, from ticks to hundredths of a day
RoundInterval(x) ==
    IF IsNum(x)
    THEN Num((x.v + TicksPerHundredth \div 2) \div TicksPerHundredth)
    ELSE NaN

\* NewDueDate computed after the rounding of line 656
NewDueDate_FromRounded(t, raw) ==
    IsoDate(DateOf(t + RoundInterval(raw).v * TicksPerHundredth))

\* NewDueDate that drops the interval: the date of the review itself
NewDueDate_DateOfReview(t, raw) == IsoDate(DateOf(t))

\* lines 652-653: the UTC date of now + interval, the interval not yet rounded
NewDueDate(t, raw) == IsoDate(DateOf(t + raw.v))

\* newState = cardState: the writes to newState are writes to the argument
ArgumentAfter_Aliased(state, newState) == newState

\* line 604: const newState = { ...cardState } is another object, and every
\* field of a card state is a number, a string or null, so the object the
\* caller passed holds after the call what it held before
ArgumentAfter(state, newState) == state

\* lines 604-656: the fields of newState when the call comes to its end
NewState(state, difficulty, t, raw) ==
    [interval       |-> RoundInterval(raw),
     easeFactor     |-> NewEaseFactor(state, difficulty),
     repetitions    |-> NewRepetitions(state, difficulty),
     dueDate        |-> NewDueDate(t, raw),
     createdAt      |-> state.createdAt,
     lastReviewed   |-> Num(t),
     totalReviews   |-> NewTotalReviews(state),
     correctReviews |-> NewCorrectReviews(state, difficulty)]

\* lines 604-656, up to the point the call leaves: what newState holds when
\* the call returns, or when line 653 throws with dueDate not yet written
WrittenState(state, difficulty, t) ==
    IF IsNum(NewInterval(state, difficulty))
    THEN NewState(state, difficulty, t, NewInterval(state, difficulty))
    ELSE [NewState(state, difficulty, t, Num(0))
             EXCEPT !.interval = NaN, !.dueDate = state.dueDate]

\* the content, after a call of updateCardState, of the object that was
\* passed as cardState
ArgumentAfterCall(state, difficulty, t) ==
    ArgumentAfter(state, WrittenState(state, difficulty, t))

\* lines 603-659.  new Date(NaN).toISOString() throws a RangeError, so the call
\* throws whenever the interval of line 652 is not a number.
updateCardState(state, difficulty, t) ==
    LET raw == NewInterval(state, difficulty)
    IN  IF ~IsNum(raw)
        THEN [threw |-> TRUE, rawInterval |-> raw, state |-> state]
        ELSE [threw |-> FALSE,
              rawInterval |-> raw,
              state |-> NewState(state, difficulty, t, raw)]

\* lines 695-699: the object that was passed to calculateIntervals, as the
\* calls for the ratings before difficulty left it
ArgumentBefore(state, difficulty, t) ==
    CASE difficulty = "again" -> state
      [] difficulty = "hard"  -> ArgumentAfterCall(state, "again", t)
      [] difficulty = "good"  ->
            ArgumentAfterCall(ArgumentAfterCall(state, "again", t), "hard", t)
      [] OTHER ->
            ArgumentAfterCall(
                ArgumentAfterCall(ArgumentAfterCall(state, "again", t), "hard", t),
                "good", t)

\* flashcard.js lines 693-702: calculateIntervals, the interval that each of
\* the four ratings would give; it throws when one of the four calls throws.
\* The four calls get the same object, one after the other: each call sees
\* what the calls before it left in that object, and argument is what the
\* object holds in the end.
calculateIntervals(state, t) ==
    LET tempState == [difficulty \in Difficulties |->
                         updateCardState(ArgumentBefore(state, difficulty, t),
                                         difficulty, t)]
    IN  [threw |-> \E difficulty \in Difficulties : tempState[difficulty].threw,
         intervals |-> [difficulty \in Difficulties |->
                           tempState[difficulty].state.interval],
         argument |-> ArgumentAfterCall(ArgumentBefore(state, "easy", t), "easy", t)]

\* app.js lines 423-436: formatInterval of an interval in hundredths of a
\* day; Math.round rounds half up
formatInterval(days) ==
    IF ~IsNum(days) THEN [n |-> NaN, unit |-> "mo"]
    ELSE IF days.v < 100
         THEN [n |-> Num((days.v * 1440 + 50) \div 100), unit |-> "m"]
    ELSE IF days.v < 700
         THEN [n |-> Num((days.v + 50) \div 100), unit |-> "d"]
    ELSE IF days.v < 3000
         THEN [n |-> Num((days.v + 350) \div 700), unit |-> "w"]
    ELSE [n |-> Num((days.v + 1500) \div 3000), unit |-> "mo"]

-----------------------------------------------------------------------------
(* StorageManager: the card states under the localStorage key CARDS *)

CardKeys == {<<"demo", "c1">>, <<"demo", "c2">>, <<"greek", "g1">>}

EmptyStore == [k \in {} |-> 0]

\* storage.js lines 115-124: the default of getCardState, read at time t
DefaultCardState(t) ==
    [interval       |-> Num(100),
     easeFactor     |-> Num(DEFAULT_EASE_FACTOR),
     repetitions    |-> Num(0),
     dueDate        |-> Today(t),
     createdAt      |-> t,
     lastReviewed   |-> Null,
     totalReviews   |-> Num(0),
     correctReviews |-> Num(0)]

\* lines 112-126: the stored state, or the default made up at the time of
\* the read
getCardState(st, key, t) ==
    IF key \in DOMAIN st THEN st[key] ELSE DefaultCardState(t)

\* what localStorage.setItem does with a write:
\*   "ok"            it stores the value
\*   "error"         it throws an error other than QuotaExceededError
\*   "quota_cleaned" it throws QuotaExceededError, and the write of the
\*                   cleaned card data in handleStorageQuotaExceeded is stored
\*   "quota_full"    it throws QuotaExceededError, and so does that write
WriteOutcomes == {"ok", "error", "quota_cleaned", "quota_full"}

\* lines 351-352: new Date(cardState.dueDate) < hundredDaysAgo, where
\* hundredDaysAgo is the time t of the call moved back by 100 days
OlderThanHundredDays(state, t) ==
    (DayOfIso(state.dueDate) - EpochDay) * TicksPerDay < t - 100 * TicksPerDay

\* lines 345-359: 'Strategy 2' of handleStorageQuotaExceeded, the card data
\* without the states of repetitions 0 whose dueDate is over 100 days old
CleanedCards(st, t) ==
    LET kept == { k \in DOMAIN st :
                    ~(OlderThanHundredDays(st[k], t) /\ st[k].repetitions = Num(0)) }
    IN  [k \in kept |-> st[k]]

\* lines 334-369: the card data after handleStorageQuotaExceeded
handleStorageQuotaExceeded(st, t, w) ==
    IF w = "quota_cleaned" THEN CleanedCards(st, t) ELSE st

\* lines 75-89: setData(CARDS, data) on the stored card data st; the value
\* returned and the card data stored afterwards
setData(st, data, t, w) ==
    IF w = "ok"
    THEN [ok |-> TRUE, store |-> data]
    ELSE IF w = "error"
    THEN [ok |-> FALSE, store |-> st]
    ELSE [ok |-> FALSE, store |-> handleStorageQuotaExceeded(st, t, w)]

\* lines 128-141: the stored card data with the entry of key replaced
setCardState(st, key, state, t, w) ==
    LET entry == [state EXCEPT !.lastReviewed = Num(t)]
        data  == [k \in DOMAIN st \cup {key} |-> IF k = key THEN entry ELSE st[k]]
    IN  setData(st, data, t, w)

\* flashcard.js lines 461-469: FlashcardManager.updateCardState.  It has no
\* await, so it runs from the read to the write in one piece; the promise it
\* returns is rejected when the scheduler throws and is resolved with the new
\* state otherwise, whatever setCardState returned.
FlashcardManager_updateCardState(st, key, difficulty, t, w) ==
    LET currentState == getCardState(st, key, t)
        r            == updateCardState(currentState, difficulty, t)
        written      == setCardState(st, key, r.state, t, w)
    IN  IF r.threw
        THEN [rejected |-> TRUE, saved |-> FALSE, read |-> currentState,
              newState |-> currentState, store |-> st]
        ELSE [rejected |-> FALSE, saved |-> written.ok, read |-> currentState,
              newState |-> r.state, store |-> written.store]

\* lines 506-510: resetCardSetProgress
resetCardSetProgress(st, cardSetId, t, w) ==
    LET kept == { k \in DOMAIN st : k[1] # cardSetId }
    IN  setData(st, [k \in kept |-> st[k]], t, w).store

-----------------------------------------------------------------------------
(* StorageManager: the statistics under the localStorage key STATS *)

\* lastStudyDate: null
NoDate == <<>>

\* storage.js lines 62-69: the statistics of a new profile (totalTimeSpent
\* left out)
DefaultStats ==
    [totalCardsStudied |-> 0,
     totalSessions     |-> 0,
     streakDays        |-> Num(0),
     lastStudyDate     |-> NoDate,
     cardsPerDay       |-> EmptyStore,
     cardSets          |-> EmptyStore]

\* cardsPerDay[key] += n and the like: a missing entry starts at 0
AddAt(f, key, n) ==
    [k \in DOMAIN f \cup {key} |->
        (IF k \in DOMAIN f THEN f[k] ELSE 0) + (IF k = key THEN n ELSE 0)]

\* lines 246-267: updateStreak reads stats.lastStudyDate
updateStreak(st, today) ==
    IF st.lastStudyDate = NoDate
    THEN [st EXCEPT !.streakDays = Num(1)]
    ELSE LET daysDiff == DayOfIso(today) - DayOfIso(st.lastStudyDate)
         IN  IF daysDiff = 1 THEN [st EXCEPT !.streakDays = JsAdd(@, 1)]
             ELSE IF daysDiff = 0 THEN st
             ELSE [st EXCEPT !.streakDays = Num(1)]

\* lines 211-240: the statistics of the card set
NewCardSetStats(st, cardSetId, sessionData, today) ==
    LET old == IF cardSetId \in DOMAIN st.cardSets
               THEN st.cardSets[cardSetId]
               ELSE [totalCardsStudied |-> 0, totalSessions |-> 0,
                     totalCorrect |-> 0, totalAnswered |-> 0,
                     averageAccuracy |-> 0, lastStudied |-> NoDate]
        correct  == old.totalCorrect + sessionData.correctAnswers
        answered == old.totalAnswered + sessionData.cardsStudied
    IN  [totalCardsStudied |-> old.totalCardsStudied + sessionData.cardsStudied,
         totalSessions     |-> old.totalSessions + 1,
         totalCorrect      |-> correct,
         totalAnswered     |-> answered,
         averageAccuracy   |-> IF answered > 0
                               THEN (200 * correct + answered) \div (2 * answered)
                               ELSE old.averageAccuracy,
         lastStudied       |-> today]

\* lines 186-244: recordStudySession, in the order of its statements:
\* lastStudyDate is set to today (line 199) before updateStreak (line 208)
\* reads it
recordStudySession(st, cardSetId, sessionData, t, w) ==
    LET today   == Today(t)
        general == [st EXCEPT
                      !.totalCardsStudied = @ + sessionData.cardsStudied,
                      !.totalSessions = @ + 1,
                      !.lastStudyDate = today,
                      !.cardsPerDay = AddAt(@, today, sessionData.cardsStudied)]
        streak  == updateStreak(general, today)
        new     == [streak EXCEPT
                      !.cardSets =
                          [k \in DOMAIN @ \cup {cardSetId} |->
                              IF k = cardSetId
                              THEN NewCardSetStats(streak, cardSetId, sessionData, today)
                              ELSE @[k]]]
    IN  [ok |-> w = "ok", stats |-> IF w = "ok" THEN new ELSE st]

\* storage.js lines 340-345: new Date(date) < thirtyDaysAgo, where
\* thirtyDaysAgo is the time t of the call moved back by 30 days
OlderThanThirtyDays(date, t) ==
    (DayOfIso(date) - EpochDay) * TicksPerDay < t - 30 * TicksPerDay

\* lines 337-350: 'Strategy 1' of handleStorageQuotaExceeded, the statistics
\* without the days of cardsPerDay that are over 30 days old
PrunedStats(st, t) ==
    [st EXCEPT !.cardsPerDay =
        [date \in { d \in DOMAIN @ : ~OlderThanThirtyDays(d, t) } |-> @[date]]]

\* the statistics after a write of card data with outcome w: a write that
\* meets the quota runs handleStorageQuotaExceeded, whose write of the pruned
\* statistics is stored when the write of the cleaned card data is
StatsAfterWrite(st, t, w) ==
    IF w = "quota_cleaned" THEN PrunedStats(st, t) ELSE st

-----------------------------------------------------------------------------
(* FlashcardManager.parseCSVLine: a line is a sequence of characters *)

Quote == "\""
Comma == ","

\* a quote inside quotes that is never read as the first of a doubled quote
IsEscapedQuote_Never(line, i) == FALSE

\* flashcard.js line 364: the quote at i is followed by another quote
IsEscapedQuote(line, i) == i + 1 <= Len(line) /\ line[i + 1] = Quote

\* lines 357-377: the loop, from the character at i on
RECURSIVE ParseFrom(_, _, _, _, _)
ParseFrom(line, i, current, inQuotes, result) ==
    IF i > Len(line) THEN Append(result, current)
    ELSE IF line[i] = Quote /\ ~inQuotes
         THEN ParseFrom(line, i + 1, current, TRUE, result)
    ELSE IF line[i] = Quote /\ inQuotes
         THEN IF IsEscapedQuote(line, i)
              THEN ParseFrom(line, i + 2, Append(current, Quote), TRUE, result)
              ELSE ParseFrom(line, i + 1, current, FALSE, result)
    ELSE IF line[i] = Comma /\ ~inQuotes
         THEN ParseFrom(line, i + 1, <<>>, FALSE, Append(result, current))
    ELSE ParseFrom(line, i + 1, Append(current, line[i]), inQuotes, result)

\* lines 351-383: parseCSVLine
parseCSVLine(line) == ParseFrom(line, 1, <<>>, FALSE, <<>>)

-----------------------------------------------------------------------------
(* FlashcardManager.getAvailableCardSets: the discovery of the card sets.   *)
(* A call runs until it waits on the network; what it does then depends on  *)
(* the answer.                                                              *)

\* flashcard.js line 16
maxRetries == 3

\* line 14: 5 minutes, in ticks
cacheTimeout == 3125

\* availableCardSetsCache: null, or an array of card sets
NoCache == [cached |-> FALSE]
Cached(list) == [cached |-> TRUE, list |-> list]

\* lines 7-18: the fields the constructor sets
NewManager ==
    [availableCardSetsCache |-> NoCache, lastCacheTime |-> 0,
     failedAttempts |-> {}, retryCount |-> 0]

\* the file names that data/index.json lists
IndexFiles == <<"greek.csv", "latin.csv">>

\* lines 132-140 (and 62-65): [this.createDemoCardSet()] is cached and returned
ReturnDemoSet(m, at) ==
    [manager |-> [m EXCEPT !.availableCardSetsCache = Cached(<<"demo">>),
                           !.lastCacheTime = at],
     waits |-> "done", file |-> 0, sets |-> <<>>, returned |-> <<"demo">>]

\* lines 81-124: the loop over indexData.cardSets from the k-th file on, up
\* to the next HEAD request, and what follows the loop
RECURSIVE CheckFilesFrom(_, _, _, _)
CheckFilesFrom(m, at, k, sets) ==
    IF k > Len(IndexFiles)
    THEN IF Len(sets) > 0
         THEN [manager |-> [m EXCEPT !.availableCardSetsCache = Cached(sets),
                                     !.lastCacheTime = at,
                                     !.retryCount = 0],
               waits |-> "done", file |-> 0, sets |-> sets, returned |-> sets]
         ELSE ReturnDemoSet([m EXCEPT !.retryCount = @ + 1], at)
    ELSE IF IndexFiles[k] \in m.failedAttempts
         THEN CheckFilesFrom(m, at, k + 1, sets)
    ELSE [manager |-> m, waits |-> "head", file |-> k, sets |-> sets,
          returned |-> <<>>]

\* lines 47-75: getAvailableCardSets up to the request for index.json
getAvailableCardSets(m, t) ==
    IF m.availableCardSetsCache.cached /\ t - m.lastCacheTime < cacheTimeout
    THEN [manager |-> m, waits |-> "done", file |-> 0, sets |-> <<>>,
          returned |-> m.availableCardSetsCache.list]
    ELSE IF m.retryCount >= maxRetries
    THEN ReturnDemoSet(m, t)
    ELSE [manager |-> m, waits |-> "index", file |-> 0, sets |-> <<>>,
          returned |-> <<>>]

\* what the network answers: a response that is ok, a response that is not,
\* or no response (the promise of fetch is rejected)
Answers == {"ok", "notok", "error"}

\* lines 75-130: the call goes on when the request it waits on is answered.
\* getCardSetInfo (157-193) waits for the file and never throws.
Continue(m, call, answer) ==
    CASE call.waits = "index" ->
            IF answer = "ok"
            THEN CheckFilesFrom(m, call.at, 1, <<>>)
            ELSE ReturnDemoSet([m EXCEPT !.retryCount = @ + 1], call.at)
      [] call.waits = "head" ->
            IF answer = "ok"
            THEN [manager |-> m, waits |-> "info", file |-> call.file,
                  sets |-> call.sets, returned |-> <<>>]
            ELSE CheckFilesFrom(
                    [m EXCEPT !.failedAttempts = @ \cup {IndexFiles[call.file]}],
                    call.at, call.file + 1, call.sets)
      [] OTHER ->
            CheckFilesFrom(m, call.at, call.file + 1,
                           Append(call.sets, IndexFiles[call.file]))

\* lines 559-565
clearAvailableCardSetsCache(m) == NewManager

-----------------------------------------------------------------------------
(* SpacedRepetitionManager: which cards are due, and in which order *)

\* flashcard.js lines 709-712: cardState.dueDate <= today, on strings
isCardDue_Strict(state, t) ==
    StringLeq(state.dueDate, Today(t)) /\ state.dueDate # Today(t)

isCardDue(state, t) == StringLeq(state.dueDate, Today(t))

\* lines 719-721: cards.filter(card => this.isCardDue(card.state))
getDueCards(cards, t) == SelectSeq(cards, LAMBDA card : isCardDue(card.state, t))

\* lines 754-758: whole days from the dueDate to today, both read as dates
getDaysOverdue(state, today) == DayOfIso(today) - DayOfIso(state.dueDate)

\* lines 741-742: a.state.easeFactor || this.DEFAULT_EASE_FACTOR
EaseOrDefault(state) ==
    IF IsNum(state.easeFactor) /\ state.easeFactor.v # 0
    THEN state.easeFactor.v
    ELSE DEFAULT_EASE_FACTOR

\* the comparator with the easier card first
comparePriority_EasierFirst(a, b, today) ==
    LET aDaysOverdue == getDaysOverdue(a.state, today)
        bDaysOverdue == getDaysOverdue(b.state, today)
    IN  IF aDaysOverdue # bDaysOverdue
        THEN bDaysOverdue - aDaysOverdue
        ELSE EaseOrDefault(b.state) - EaseOrDefault(a.state)

\* lines 731-745: the comparator handed to Array.prototype.sort
comparePriority(a, b, today) ==
    LET aDaysOverdue == getDaysOverdue(a.state, today)
        bDaysOverdue == getDaysOverdue(b.state, today)
    IN  IF aDaysOverdue # bDaysOverdue
        THEN bDaysOverdue - aDaysOverdue
        ELSE EaseOrDefault(a.state) - EaseOrDefault(b.state)

\* Array.prototype.sort is a stable sort: each card is put behind the cards
\* before it that the comparator does not place after it
RECURSIVE InsertCard(_, _, _)
InsertCard(sorted, card, today) ==
    IF sorted = <<>> THEN <<card>>
    ELSE IF comparePriority(sorted[Len(sorted)], card, today) <= 0
    THEN Append(sorted, card)
    ELSE Append(InsertCard(SubSeq(sorted, 1, Len(sorted) - 1), card, today),
                sorted[Len(sorted)])

RECURSIVE SortFrom(_, _, _)
SortFrom(sorted, rest, today) ==
    IF rest = <<>> THEN sorted
    ELSE SortFrom(InsertCard(sorted, Head(rest), today), Tail(rest), today)

\* lines 728-746: sortCardsByPriority
sortCardsByPriority(cards, t) == SortFrom(<<>>, cards, Today(t))

\* the cards of an array that satisfy a test, as Array.prototype.filter
\* keeps them, and how many there are
CountCards(cards, Test(_)) == Len(SelectSeq(cards, Test))

\* cards.slice(0, n) for n >= 0
SliceFirst(cards, n) == SubSeq(cards, 1, IF n < Len(cards) THEN n ELSE Len(cards))

\* the third category starting with the third repetition only above it
CardCategory_LateReview(state) ==
    LET reps == OrZero(state.repetitions)
    IN  IF reps = 0 THEN "new"
        ELSE IF reps <= 3 THEN "learning"
        ELSE IF IsNum(state.interval) /\ state.interval.v < 2100 THEN "review"
        ELSE "mature"

\* flashcard.js lines 785-796: the category of a card; a comparison with an
\* interval that is not a number is false
CardCategory(state) ==
    LET reps == OrZero(state.repetitions)
    IN  IF reps = 0 THEN "new"
        ELSE IF reps < 3 THEN "learning"
        ELSE IF IsNum(state.interval) /\ state.interval.v < 2100 THEN "review"
        ELSE "mature"

\* lines 765-829: getStatistics, the counts (the two averages are left out)
getStatistics(cards, t) ==
    [totalCards    |-> Len(cards),
     newCards      |-> CountCards(cards, LAMBDA card : CardCategory(card.state) = "new"),
     learningCards |-> CountCards(cards, LAMBDA card : CardCategory(card.state) = "learning"),
     reviewCards   |-> CountCards(cards, LAMBDA card : CardCategory(card.state) = "review"),
     matureCards   |-> CountCards(cards, LAMBDA card : CardCategory(card.state) = "mature"),
     dueToday      |-> CountCards(cards, LAMBDA card : isCardDue(card.state, t)),
     overdue       |-> CountCards(cards, LAMBDA card :
                          /\ isCardDue(card.state, t)
                          /\ getDaysOverdue(card.state, Today(t)) > 0)]

\* The time zone of the browser: the offset of local time from UTC in ticks,
\* before and after a change of the offset at the instant switchAt
TimeZoneUTC == [before |-> 0, after |-> 0, switchAt |-> 0]

\* America/New_York in autumn 2024: UTC-4 until 2024-11-03T06:00Z, then UTC-5
HoursTicks(h) == h * (TicksPerDay \div 24)
TimeZoneNewYork ==
    [before |-> HoursTicks(0 - 4), after |-> HoursTicks(0 - 5),
     switchAt |-> 308 * TicksPerDay + HoursTicks(6)]

\* LocalTime(t) and UTC(local) of ECMAScript: a local time that exists twice
\* or not at all is read with the offset before the change
LocalTime(t, tz) == t + (IF t < tz.switchAt THEN tz.before ELSE tz.after)
UtcOfLocal(local, tz) ==
    IF local - tz.before < tz.switchAt THEN local - tz.before
    ELSE IF local - tz.after >= tz.switchAt THEN local - tz.after
    ELSE local - tz.before

\* lines 841-843: date.setDate(today.getDate() + i) moves the local date by i
\* days and keeps the local time of day; toISOString prints the UTC date
ForecastDate(t, i, tz) ==
    IsoDate(DateOf(UtcOfLocal(LocalTime(t, tz) + i * TicksPerDay, tz)))

\* lines 837-858: getForecast
getForecast(cards, days, t, tz) ==
    [i \in 1..days |->
        LET dateStr == ForecastDate(t, i - 1, tz)
            dueCards == SelectSeq(cards, LAMBDA card : card.state.dueDate = dateStr)
        IN  [date        |-> dateStr,
             cardCount   |-> Len(dueCards),
             newCards    |-> CountCards(dueCards,
                                LAMBDA card : OrZero(card.state.repetitions) = 0),
             reviewCards |-> CountCards(dueCards,
                                LAMBDA card : OrZero(card.state.repetitions) > 0)]]

\* the first share of the session taken as the whole session
MaxOverdue_Whole(maxCards) == maxCards

\* line 884: Math.floor(maxCards * 0.5)
MaxOverdue(maxCards) == maxCards \div 2

\* line 889: Math.floor(remainingSpace * 0.3); the double nearest to 0.3
\* times a small integer rounds to the exact product
MaxNew(remainingSpace) == (3 * remainingSpace) \div 10

\* lines 867-904: calculateOptimalSession, for avgTimePerCard > 0
calculateOptimalSession(dueCards, availableMinutes, avgTimePerCard, t) ==
    LET maxCards     == (availableMinutes * 60) \div avgTimePerCard
        today        == Today(t)
        overdueCards == SelectSeq(dueCards,
                            LAMBDA card : getDaysOverdue(card.state, today) > 0)
        newCards     == SelectSeq(dueCards,
                            LAMBDA card : OrZero(card.state.repetitions) = 0)
        reviewCards  == SelectSeq(dueCards,
                            LAMBDA card : /\ OrZero(card.state.repetitions) > 0
                                          /\ getDaysOverdue(card.state, today) <= 0)
        maxOverdue   == MaxOverdue(maxCards)
        first        == SliceFirst(overdueCards, maxOverdue)
        maxNew       == MaxNew(maxCards - Len(first))
        second       == first \o SliceFirst(newCards, maxNew)
        finalRemainingSpace == maxCards - Len(second)
        sessionCards == second \o SliceFirst(reviewCards, finalRemainingSpace)
        Least(a, b)  == IF a < b THEN a ELSE b
    IN  [recommendedCards |-> sessionCards,
         totalCards       |-> Len(sessionCards),
         estimatedTime    |-> (Len(sessionCards) * avgTimePerCard + 30) \div 60,
         breakdown        |-> [overdue |-> Least(Len(overdueCards), maxOverdue),
                               new     |-> Least(Len(newCards), maxNew),
                               review  |-> Least(Len(reviewCards), finalRemainingSpace)]]

\* lines 436-452: FlashcardManager.getDueCards on the cards of a card set
FlashcardManager_getDueCards(st, cardSetId, cardIds, t) ==
    LET withState == [i \in 1..Len(cardIds) |->
                        [id |-> cardIds[i],
                         state |-> getCardState(st, <<cardSetId, cardIds[i]>>, t)]]
    IN  sortCardsByPriority(getDueCards(withState, t), t)

-----------------------------------------------------------------------------
(* The inputs *)

\* a rating string outside the four the interface documents
InvalidDifficulties == {"unknown"}

\* easeFactor of an input state: inside, at and outside [1.3, 3.0], or missing;
\* 0.5 makes the product of line 639 smaller than the interval it starts from
EaseInputs == {Num(50), Num(100), Num(130), Num(140), Num(200), Num(250), Num(290),
               Num(300), Num(350), Undefined}

\* stored interval of an input state, in hundredths of a day
IntervalInputs == {Num(0), Num(1), Num(25), Num(100), Num(1000)}

RepetitionInputs == {Num(0), Num(1), Num(2), Num(3), Undefined}

InputStates ==
    { [interval       |-> i,
       easeFactor     |-> e,
       repetitions    |-> r,
       dueDate        |-> Today(0),
       createdAt      |-> 0,
       lastReviewed   |-> Null,
       totalReviews   |-> Num(0),
       correctReviews |-> c] :
      i \in IntervalInputs, e \in EaseInputs, r \in RepetitionInputs,
      c \in {Num(0), Undefined} }

\* just after midnight, and in the last minute of the day
StartTimes == {0, TicksPerDay - 300}

NoCall == [made |-> FALSE]

QueueIdle ==
    /\ queueIn = <<>>
    /\ queueOut = NoCall

\* app.js lines 9-10: no card set is selected and no session runs
NoSession == [active |-> FALSE]

\* what is known of the session that runs or ran last: its queue, the cards
\* shown and rated, the rating events, whether one of them came while a
\* transition was pending, what each call of handleAnswer updated, the calls
\* of recordStudySession, and how the session ended
NoLog ==
    [queue |-> <<>>, shown |-> {}, rated |-> {}, events |-> 0,
     overlapped |-> FALSE, updated |-> <<>>, records |-> 0, ended |-> "no"]

SessionIdle ==
    /\ currentView = "home"
    /\ studySession = NoSession
    /\ flashcard = [flipped |-> FALSE, transitioning |-> FALSE, content |-> "none"]
    /\ transitions = <<>>
    /\ listeners = 0
    /\ sessionLog = NoLog
    /\ lastAnswer = NoCall

\* nothing was recorded and nothing parsed
StatsIdle ==
    /\ stats = DefaultStats
    /\ lastRecord = NoCall

\* the FlashcardManager was constructed and has discovered nothing
DiscoveryIdle ==
    /\ manager = NewManager
    /\ discovery = [pending |-> <<>>, calls |-> 0, returned |-> NoCall,
                    requestAtLimit |-> FALSE]

CsvIdle ==
    /\ csvLine = <<>>
    /\ csvFields = NoCall

\* the scheduler on its own has nothing stored
StoreIdle ==
    /\ store = EmptyStore
    /\ lastUpdate = NoCall
    /\ firstCreated = EmptyStore
    /\ expectedReviews = [k \in CardKeys |-> 0]
    /\ lastOp = "init"
    /\ ops = 0

-----------------------------------------------------------------------------
(* The state machine: a card state is rated again and again, and the clock  *)
(* moves between the ratings.                                               *)

Init ==
    /\ now \in StartTimes
    /\ cardState \in InputStates
    /\ lastCall = NoCall
    /\ preview = NoCall
    /\ StoreIdle
    /\ QueueIdle
    /\ SessionIdle
    /\ StatsIdle
    /\ CsvIdle
    /\ DiscoveryIdle

\* one call of updateCardState on the current state; the state it returns
\* becomes the current state, a call that throws leaves it as it was;
\* returns counts the calls so far that returned
Call(difficulty) ==
    LET r == updateCardState(cardState, difficulty, now)
    IN  /\ lastCall' = [made |-> TRUE, input |-> cardState,
                        difficulty |-> difficulty, at |-> now,
                        threw |-> r.threw, rawInterval |-> r.rawInterval,
                        output |-> r.state,
                        returns |-> (IF lastCall.made THEN lastCall.returns ELSE 0)
                                        + (IF r.threw THEN 0 ELSE 1)]
        /\ cardState' = IF r.threw THEN cardState ELSE r.state
        /\ preview' = NoCall

Review(difficulty) ==
    /\ OrZero(cardState.totalReviews) < MaxReviews
    /\ IsNum(cardState.interval) => cardState.interval.v <= MaxStoredInterval
    /\ Call(difficulty)
    /\ UNCHANGED <<now, notSched>>

Tick ==
    /\ now \div HalfDay < MaxHalfDays
    /\ now' = now + HalfDay
    /\ UNCHANGED notClock

Next ==
    \/ \E difficulty \in Difficulties \cup InvalidDifficulties : Review(difficulty)
    \/ Tick

Spec == Init /\ [][Next]_vars

-----------------------------------------------------------------------------
(* The life of one card: the state StorageManager.getCardState makes up for  *)
(* a card it has never stored, rated with the four ratings.                  *)

DefaultInit ==
    /\ now \in StartTimes
    /\ cardState = DefaultCardState(now)
    /\ lastCall = NoCall
    /\ preview = NoCall
    /\ StoreIdle
    /\ QueueIdle
    /\ SessionIdle
    /\ StatsIdle
    /\ CsvIdle
    /\ DiscoveryIdle

DefaultReview(difficulty) ==
    /\ OrZero(cardState.totalReviews) < MaxDefaultReviews
    /\ IsNum(cardState.interval) => cardState.interval.v <= MaxStoredInterval
    /\ Call(difficulty)
    /\ UNCHANGED <<now, notSched>>

\* the rating buttons are labelled for the current card state: the object
\* that holds it is passed to calculateIntervals
Preview ==
    LET result == calculateIntervals(cardState, now)
    IN  /\ IsNum(cardState.interval) => cardState.interval.v <= MaxStoredInterval
        /\ preview' = [made |-> TRUE, input |-> cardState, at |-> now,
                       result |-> result]
        /\ cardState' = result.argument
        /\ UNCHANGED <<now, lastCall, notSched>>

DefaultNext ==
    \/ \E difficulty \in Difficulties : DefaultReview(difficulty)
    \/ Preview
    \/ Tick

SpecDefault == DefaultInit /\ [][DefaultNext]_vars

-----------------------------------------------------------------------------
(* The card store: updates of stored cards, with writes that can fail, and   *)
(* the operations that remove card states.                                   *)

\* the state a card has when it was rated once, at time t
RatedOnce(difficulty, t) ==
    [updateCardState(DefaultCardState(t), difficulty, t).state
        EXCEPT !.lastReviewed = Num(t)]

\* a lapsed card last seen 120 days before the clock starts, and a card
\* rated good the day before
StaleState == RatedOnce("again", (0 - 120) * TicksPerDay)
RecentState == RatedOnce("good", 0 - TicksPerDay)

InitialStores ==
    { EmptyStore,
      [k \in {<<"demo", "c1">>} |-> StaleState],
      [k \in {<<"demo", "c1">>, <<"greek", "g1">>} |->
          IF k[1] = "demo" THEN StaleState ELSE RecentState] }

\* the ratings and the cards the store is exercised with
StoreDifficulties == {"again", "good"}
StoreKeys == {<<"demo", "c1">>, <<"greek", "g1">>}

StoredTotal(st, key) == IF key \in DOMAIN st THEN st[key].totalReviews.v ELSE 0

\* statistics with a day of study 40 days before the clock starts and one
\* the day before it starts
OldStats ==
    [DefaultStats EXCEPT
        !.totalCardsStudied = 5,
        !.totalSessions = 2,
        !.streakDays = Num(1),
        !.lastStudyDate = IsoDate(EpochDay - 1),
        !.cardsPerDay = [d \in {IsoDate(EpochDay - 40), IsoDate(EpochDay - 1)} |->
                            IF d = IsoDate(EpochDay - 1) THEN 2 ELSE 3]]

InitialStats == {DefaultStats, OldStats}

SchedIdle ==
    /\ cardState = DefaultCardState(0)
    /\ lastCall = NoCall
    /\ preview = NoCall

StoreInit ==
    /\ now \in StartTimes
    /\ SchedIdle
    /\ store \in InitialStores
    /\ lastUpdate = NoCall
    /\ firstCreated = [k \in DOMAIN store |-> store[k].createdAt]
    /\ expectedReviews = [k \in CardKeys |-> StoredTotal(store, k)]
    /\ lastOp = "init"
    /\ ops = 0
    /\ QueueIdle
    /\ SessionIdle
    /\ stats \in InitialStats
    /\ lastRecord = NoCall
    /\ CsvIdle
    /\ DiscoveryIdle

\* one call of FlashcardManager.updateCardState, and what it leaves behind
Update(key, difficulty, w) ==
    LET u == FlashcardManager_updateCardState(store, key, difficulty, now, w)
    IN  /\ store' = u.store
        /\ stats' = IF u.rejected THEN stats ELSE StatsAfterWrite(stats, now, w)
        /\ lastUpdate' = [made |-> TRUE, key |-> key, difficulty |-> difficulty,
                          at |-> now, write |-> w, rejected |-> u.rejected,
                          saved |-> u.saved, read |-> u.read,
                          newState |-> u.newState,
                          before |-> store, statsBefore |-> stats]
        /\ firstCreated' =
              IF u.saved /\ key \notin DOMAIN firstCreated
              THEN [k \in DOMAIN firstCreated \cup {key} |->
                       IF k = key THEN u.newState.createdAt ELSE firstCreated[k]]
              ELSE firstCreated
        /\ expectedReviews' =
              IF u.rejected THEN expectedReviews
              ELSE [expectedReviews EXCEPT ![key] = @ + 1]

StoreUpdate(key, difficulty, w) ==
    /\ ops < MaxOps
    /\ Update(key, difficulty, w)
    /\ lastOp' = "update"
    /\ ops' = ops + 1
    /\ UNCHANGED <<now, notStore>>

\* the card states of the keys in removed are gone on purpose
Forget(removed) ==
    /\ firstCreated' = [k \in DOMAIN firstCreated \ removed |-> firstCreated[k]]
    /\ expectedReviews' = [k \in CardKeys |->
                             IF k \in removed THEN 0 ELSE expectedReviews[k]]

ResetProgress(cardSetId, w) ==
    /\ ops < MaxOps
    /\ store' = resetCardSetProgress(store, cardSetId, now, w)
    /\ Forget(DOMAIN store \ DOMAIN store')
    /\ stats' = StatsAfterWrite(stats, now, w)
    /\ lastOp' = "reset"
    /\ ops' = ops + 1
    /\ UNCHANGED <<now, notStore, lastUpdate>>

\* storage.js lines 303-309: clearAllData removes the key CARDS
ClearAllData ==
    /\ ops < MaxOps
    /\ store' = EmptyStore
    /\ Forget(DOMAIN store)
    /\ stats' = DefaultStats
    /\ lastOp' = "clearAll"
    /\ ops' = ops + 1
    /\ UNCHANGED <<now, notStore, lastUpdate>>

\* storage.js lines 282-301: importData replaces the card data, and the
\* statistics by those of the file, here the ones of a new profile
ImportData(cards, w) ==
    /\ ops < MaxOps
    /\ store' = setData(store, cards, now, w).store
    /\ stats' = IF w = "ok" THEN DefaultStats ELSE stats
    /\ firstCreated' = [k \in DOMAIN store' |->
                          IF k \in DOMAIN store /\ k \in DOMAIN firstCreated
                             /\ store'[k] = store[k]
                          THEN firstCreated[k] ELSE store'[k].createdAt]
    /\ expectedReviews' = [k \in CardKeys |->
                             IF k \in DOMAIN store /\ k \in DOMAIN store'
                                /\ store'[k] = store[k]
                             THEN expectedReviews[k] ELSE StoredTotal(store', k)]
    /\ lastOp' = "import"
    /\ ops' = ops + 1
    /\ UNCHANGED <<now, notStore, lastUpdate>>

StoreNext ==
    \/ \E key \in StoreKeys, difficulty \in StoreDifficulties, w \in WriteOutcomes :
          StoreUpdate(key, difficulty, w)
    \/ \E w \in WriteOutcomes : ResetProgress("demo", w)
    \/ ClearAllData
    \/ \E w \in {"ok", "error"} : ImportData([k \in {<<"greek", "g1">>} |-> RecentState], w)
    \/ Tick

SpecStore == StoreInit /\ [][StoreNext]_vars

-----------------------------------------------------------------------------
(* The queue builder on arrays of cards with arbitrary states *)

\* dueDates on both sides of the turn of the year, and one far in the past
DueDateInputs == {<<2023, 9, 30>>, <<2023, 12, 30>>, <<2023, 12, 31>>,
                  <<2024, 1, 1>>, <<2024, 1, 2>>}

QueueEaseInputs == {Num(130), Num(250), Undefined}

QueueIds == <<"c1", "c2", "c3">>
MaxCards == Len(QueueIds)

QueueStates ==
    { [DefaultCardState(0) EXCEPT !.dueDate = d, !.easeFactor = e] :
        d \in DueDateInputs, e \in QueueEaseInputs }

QueueInputs ==
    UNION { { [i \in 1..n |-> [id |-> QueueIds[i], state |-> f[i]]] :
                f \in [1..n -> QueueStates] } : n \in 0..MaxCards }

QueueInit ==
    /\ now \in StartTimes
    /\ SchedIdle
    /\ StoreIdle
    /\ queueIn \in QueueInputs
    /\ queueOut = NoCall
    /\ SessionIdle
    /\ StatsIdle
    /\ CsvIdle
    /\ DiscoveryIdle

\* SpacedRepetitionManager.getDueCards(cards)
QueueFilter ==
    /\ queueOut' = [made |-> TRUE, op |-> "getDueCards", at |-> now,
                    input |-> queueIn, output |-> getDueCards(queueIn, now)]
    /\ UNCHANGED <<now, notQueue, queueIn>>

\* SpacedRepetitionManager.sortCardsByPriority(cards): the array is sorted in
\* place and returned
QueueSort ==
    /\ queueOut' = [made |-> TRUE, op |-> "sortCardsByPriority", at |-> now,
                    input |-> queueIn, output |-> sortCardsByPriority(queueIn, now)]
    /\ queueIn' = sortCardsByPriority(queueIn, now)
    /\ UNCHANGED <<now, notQueue>>

QueueNext ==
    \/ QueueFilter
    \/ QueueSort
    \/ Tick

SpecQueue == QueueInit /\ [][QueueNext]_vars

-----------------------------------------------------------------------------
(* The reports on arrays of cards: statistics, forecast, session size *)

MaxForecastDays == 3
MaxMinutes == 2

\* noon and half past eleven at night (UTC) of 2024-11-02, the day before
\* the clocks of New York are set back
ReportTimes == {307 * TicksPerDay + HoursTicks(12),
                307 * TicksPerDay + HoursTicks(23) + HoursTicks(1) \div 2}

TimeZones == {TimeZoneUTC, TimeZoneNewYork}

ReportState(due, reps, interval) ==
    [DefaultCardState(0) EXCEPT !.dueDate = due, !.repetitions = reps,
                                !.interval = interval]

\* cards of every category, overdue, due today and due on the next days
ReportStates ==
    { ReportState(<<2024, 11, 1>>, Num(0), Num(0)),
      ReportState(<<2024, 11, 1>>, Num(3), Num(2100)),
      ReportState(<<2024, 11, 2>>, Num(0), Num(100)),
      ReportState(<<2024, 11, 2>>, Num(1), Num(1)),
      ReportState(<<2024, 11, 2>>, Num(3), Num(2099)),
      ReportState(<<2024, 11, 3>>, Num(2), Num(25)),
      ReportState(<<2024, 11, 3>>, Undefined, Num(100)),
      ReportState(<<2024, 11, 4>>, Num(4), Num(400)) }

ReportInputs ==
    UNION { { [i \in 1..n |-> [id |-> QueueIds[i], state |-> f[i]]] :
                f \in [1..n -> ReportStates] } : n \in 0..MaxCards }

SecondsPerCard == {20, 30, 60}

ReportInit ==
    /\ now \in ReportTimes
    /\ SchedIdle
    /\ StoreIdle
    /\ queueIn \in ReportInputs
    /\ queueOut = NoCall
    /\ SessionIdle
    /\ StatsIdle
    /\ CsvIdle
    /\ DiscoveryIdle

ReportStatistics ==
    /\ queueOut' = [made |-> TRUE, op |-> "getStatistics", at |-> now,
                    input |-> queueIn, output |-> getStatistics(queueIn, now)]
    /\ UNCHANGED <<now, notQueue, queueIn>>

ReportForecast(days, tz) ==
    /\ queueOut' = [made |-> TRUE, op |-> "getForecast", at |-> now,
                    input |-> queueIn, days |-> days, tz |-> tz,
                    output |-> getForecast(queueIn, days, now, tz)]
    /\ UNCHANGED <<now, notQueue, queueIn>>

ReportOptimalSession(availableMinutes, avgTimePerCard) ==
    /\ queueOut' = [made |-> TRUE, op |-> "calculateOptimalSession", at |-> now,
                    input |-> queueIn,
                    availableMinutes |-> availableMinutes,
                    avgTimePerCard |-> avgTimePerCard,
                    output |-> calculateOptimalSession(
                                  queueIn, availableMinutes, avgTimePerCard, now)]
    /\ UNCHANGED <<now, notQueue, queueIn>>

ReportNext ==
    \/ ReportStatistics
    \/ \E days \in 0..MaxForecastDays, tz \in TimeZones : ReportForecast(days, tz)
    \/ \E availableMinutes \in 0..MaxMinutes, avgTimePerCard \in SecondsPerCard :
          ReportOptimalSession(availableMinutes, avgTimePerCard)

SpecReport == ReportInit /\ [][ReportNext]_vars

-----------------------------------------------------------------------------
(* AnkiApp: the study session.  Every action is one task of the event loop: *)
(* an event handler or a timer callback, run together with the promise      *)
(* continuations it makes ready.                                            *)

MaxSessions == 2
MaxAnswers == 3

\* the cards of the card sets, as FlashcardManager.loadCardSet delivers them
CardSetIds == {"demo", "greek"}
cardSetCards(cardSetId) ==
    IF cardSetId = "demo" THEN <<"c1", "c2">> ELSE <<"g1">>

\* the part of the application that one task reads and writes
App ==
    [currentView |-> currentView, studySession |-> studySession,
     flashcard |-> flashcard, transitions |-> transitions, store |-> store,
     stats |-> stats, lastRecord |-> lastRecord,
     log |-> sessionLog, updated |-> <<>>]

\* app.js lines 542-563: recordSessionStatistics hands the counts of the
\* session to StorageManager.recordStudySession
recordSessionStatistics(app, t, w) ==
    LET sessionData == [cardsStudied   |-> app.studySession.stats.total,
                        correctAnswers |-> app.studySession.stats.correct,
                        wrongAnswers   |-> app.studySession.stats.wrong]
        r == recordStudySession(app.stats, app.studySession.cardSet,
                                sessionData, t, w)
    IN  [app EXCEPT !.stats = r.stats,
                    !.log.records = @ + 1,
                    !.lastRecord = [made |-> TRUE, at |-> t, saved |-> r.ok,
                                    sessionData |-> sessionData,
                                    before |-> app.stats, after |-> r.stats]]

\* app.js lines 526-540: endStudySession
endStudySession(app, how, t, w) ==
    IF app.studySession.active
    THEN [recordSessionStatistics(app, t, w) EXCEPT
             !.studySession = NoSession, !.currentView = "home",
             !.log.ended = how]
    ELSE [app EXCEPT !.currentView = "home"]

\* lines 380-407: showCurrentCard
showCurrentCard(app, t, w) ==
    IF \/ ~app.studySession.active
       \/ app.studySession.currentIndex >= Len(app.studySession.cards)
    THEN endStudySession(app, "queue", t, w)
    ELSE LET card == app.studySession.cards[app.studySession.currentIndex + 1]
         IN  [app EXCEPT !.flashcard.flipped = FALSE,
                         !.flashcard.content = card.id,
                         !.log.shown = @ \cup {card.id}]

\* lines 438-463, with the first lines of transitionToNextCard (465-476):
\* handleAnswer up to the first timer.  The card is cards[currentIndex] at the
\* time of the call; past the end of the queue it is undefined and card.id
\* throws after the statistics were counted.
handleAnswer(app, difficulty, t, w) ==
    IF ~app.studySession.active THEN app
    ELSE
    LET session == app.studySession
        correct == difficulty \in {"good", "easy"}
        counts  == [total   |-> session.stats.total + 1,
                    correct |-> session.stats.correct + (IF correct THEN 1 ELSE 0),
                    wrong   |-> session.stats.wrong + (IF correct THEN 0 ELSE 1)]
        counted == [app EXCEPT !.studySession.stats = counts]
    IN  IF session.currentIndex >= Len(session.cards)
        THEN [counted EXCEPT !.updated = Append(@, "undefined"),
                             !.log.updated = Append(@, "undefined")]
        ELSE
        LET card == session.cards[session.currentIndex + 1]
            r    == FlashcardManager_updateCardState(
                        app.store, <<session.cardSet, card.id>>, difficulty, t, w)
        IN  IF r.rejected THEN counted
            ELSE [counted EXCEPT !.store = r.store,
                                 !.studySession.currentIndex = @ + 1,
                                 !.flashcard.transitioning = TRUE,
                                 !.transitions = Append(@, 1),
                                 !.log.rated = @ \cup {card.id},
                                 !.log.updated = Append(@, card.id),
                                 !.updated = Append(@, card.id)]

\* every listener that setupStudyInterface added to a difficulty button calls
\* handleAnswer when the button is clicked
RECURSIVE handleAnswerTimes(_, _, _, _, _)
handleAnswerTimes(n, app, difficulty, t, w) ==
    IF n = 0 THEN app
    ELSE handleAnswerTimes(n - 1, handleAnswer(app, difficulty, t, w),
                           difficulty, t, w)

\* lines 478-502: what transitionToNextCard does when the timer it waits on
\* fires: 1 the 67 ms fade-out, 2 the 17 ms pause, 3 the 200 ms flip, 4 the
\* last 17 ms
transitionStep(app, stage, t, w) ==
    CASE stage = 1 -> [app EXCEPT !.flashcard.content = "none"]
      [] stage = 2 -> [app EXCEPT !.flashcard.flipped = FALSE]
      [] stage = 3 -> showCurrentCard(app, t, w)
      [] OTHER     -> [app EXCEPT !.flashcard.transitioning = FALSE]

\* lines 309-347 with selectCardSet (290-299) and setupStudyInterface (349-378)
initializeStudySession(app, cardSetId, t) ==
    LET dueCards == FlashcardManager_getDueCards(
                        app.store, cardSetId, cardSetCards(cardSetId), t)
        started  == [app EXCEPT
                        !.currentView = "study",
                        !.studySession =
                            [active |-> TRUE, cardSet |-> cardSetId,
                             cards |-> dueCards, currentIndex |-> 0,
                             stats |-> [total |-> 0, correct |-> 0, wrong |-> 0]],
                        !.log = [NoLog EXCEPT !.queue = dueCards]]
    IN  IF dueCards = <<>>
        THEN [app EXCEPT !.currentView = "study", !.flashcard.content = "none"]
        ELSE showCurrentCard(started, t, "ok")

\* a rating event arrives: a key or a click
RatingEvent(app) ==
    [app EXCEPT !.log.events = @ + 1,
                !.log.overlapped = @ \/ app.transitions # <<>>]

Commit(app) ==
    /\ currentView' = app.currentView
    /\ studySession' = app.studySession
    /\ flashcard' = app.flashcard
    /\ transitions' = app.transitions
    /\ store' = app.store
    /\ stats' = app.stats
    /\ lastRecord' = app.lastRecord
    /\ sessionLog' = app.log

\* what localStorage.setItem does with the writes of a session: they succeed
\* (SpecStore has the writes that fail)
SessionWrites == {"ok"}

storeHistory == <<lastUpdate, firstCreated, expectedReviews, lastOp, ops>>

SessionInit ==
    /\ now = 0
    /\ SchedIdle
    /\ StoreIdle
    /\ QueueIdle
    /\ SessionIdle
    /\ StatsIdle
    /\ CsvIdle
    /\ DiscoveryIdle

\* a card set is chosen on the home view
StartSession(cardSetId) ==
    /\ ~studySession.active
    /\ listeners < MaxSessions
    /\ LET app == initializeStudySession(App, cardSetId, now)
       IN  /\ Commit(app)
           /\ listeners' = IF app.studySession.active THEN listeners + 1
                           ELSE listeners
    /\ UNCHANGED <<now, notSession, storeHistory, lastAnswer>>

\* the show-answer button, or Space or Enter (lines 357-359, 604-610)
ShowAnswer ==
    /\ currentView = "study"
    /\ studySession.active
    /\ ~flashcard.flipped
    /\ flashcard' = [flashcard EXCEPT !.flipped = TRUE]
    /\ UNCHANGED <<now, notSession, storeVars, statsVars, currentView,
                   studySession, transitions, listeners, sessionLog, lastAnswer>>

\* one of the keys 1 to 4 (lines 596-635): handled when the card is flipped
RateKey(difficulty, w) ==
    /\ currentView = "study"
    /\ studySession.active
    /\ flashcard.flipped
    /\ studySession.stats.total < MaxAnswers
    /\ LET app == handleAnswer(RatingEvent(App), difficulty, now, w)
       IN  /\ Commit(app)
           /\ lastAnswer' = [made |-> TRUE, by |-> "key",
                             displayed |-> flashcard.content,
                             updated |-> app.updated]
    /\ UNCHANGED <<now, notSession, storeHistory, listeners>>

\* a click on a difficulty button (lines 364-371).  The buttons are on the
\* back of the card, which style.css hides while the card is transitioning.
RateClick(difficulty, w) ==
    /\ currentView = "study"
    /\ studySession.active
    /\ flashcard.flipped
    /\ ~flashcard.transitioning
    /\ studySession.stats.total < MaxAnswers
    /\ LET app == handleAnswerTimes(listeners, RatingEvent(App), difficulty, now, w)
       IN  /\ Commit(app)
           /\ lastAnswer' = [made |-> TRUE, by |-> "click",
                             displayed |-> flashcard.content,
                             updated |-> app.updated]
    /\ UNCHANGED <<now, notSession, storeHistory, listeners>>

\* the end-session button (lines 373-377)
EndSession(w) ==
    /\ currentView = "study"
    /\ studySession.active
    /\ Commit(endStudySession(App, "button", now, w))
    /\ UNCHANGED <<now, notSession, storeHistory, listeners, lastAnswer>>

\* a timer of a waiting transitionToNextCard fires.  All the calls wait the
\* same times, so a call never overtakes one that started before it.
TimerFires(i) ==
    /\ i \in 1..Len(transitions)
    /\ IF i = 1 THEN TRUE ELSE transitions[i - 1] > transitions[i]
    /\ LET stage == transitions[i]
           rest  == IF stage = 4
                    THEN SubSeq(transitions, 1, i - 1)
                            \o SubSeq(transitions, i + 1, Len(transitions))
                    ELSE [transitions EXCEPT ![i] = stage + 1]
       IN  \E w \in (IF stage = 3 THEN SessionWrites ELSE {"ok"}) :
              Commit([transitionStep(App, stage, now, w) EXCEPT !.transitions = rest])
    /\ UNCHANGED <<now, notSession, storeHistory, listeners, lastAnswer>>

SessionNext ==
    \/ \E cardSetId \in CardSetIds : StartSession(cardSetId)
    \/ ShowAnswer
    \/ \E difficulty \in StoreDifficulties, w \in SessionWrites :
          RateKey(difficulty, w)
    \/ \E difficulty \in StoreDifficulties, w \in SessionWrites :
          RateClick(difficulty, w)
    \/ \E w \in SessionWrites : EndSession(w)
    \/ \E i \in 1..MaxAnswers : TimerFires(i)

SpecSession == SessionInit /\ [][SessionNext]_vars

-----------------------------------------------------------------------------
(* The statistics: study sessions recorded over several days *)

MaxRecords == 3
MaxStatsDays == 3

StatsInit ==
    /\ now \in StartTimes
    /\ SchedIdle
    /\ StoreIdle
    /\ QueueIdle
    /\ SessionIdle
    /\ StatsIdle
    /\ CsvIdle
    /\ DiscoveryIdle

\* a study session of cardSetId ends: recordStudySession with its counts
Record(cardSetId, cardsStudied, w) ==
    /\ stats.totalSessions < MaxRecords
    /\ LET sessionData == [cardsStudied |-> cardsStudied,
                           correctAnswers |-> cardsStudied \div 2,
                           wrongAnswers |-> cardsStudied - cardsStudied \div 2]
           r == recordStudySession(stats, cardSetId, sessionData, now, w)
       IN  /\ stats' = r.stats
           /\ lastRecord' = [made |-> TRUE, at |-> now, saved |-> r.ok,
                             sessionData |-> sessionData,
                             before |-> stats, after |-> r.stats]
    /\ UNCHANGED <<now, notStats>>

\* a day goes by
DayPasses ==
    /\ now \div TicksPerDay < MaxStatsDays
    /\ now' = now + TicksPerDay
    /\ UNCHANGED notClock

StatsNext ==
    \/ \E cardSetId \in CardSetIds, cardsStudied \in {0, 3}, w \in {"ok", "error"} :
          Record(cardSetId, cardsStudied, w)
    \/ DayPasses

SpecStats == StatsInit /\ [][StatsNext]_vars

-----------------------------------------------------------------------------
(* The CSV reader on single lines *)

MaxLineLen == 5
MaxFieldLen == 2

Characters == {Quote, Comma, "a"}

StringsUpTo(n) == UNION { [1..k -> Characters] : k \in 0..n }

\* a field as a CSV file holds it: in quotes, each quote of it doubled
RECURSIVE DoubleQuotes(_)
DoubleQuotes(field) ==
    IF field = <<>> THEN <<>>
    ELSE (IF Head(field) = Quote THEN <<Quote, Quote>> ELSE <<Head(field)>>)
            \o DoubleQuotes(Tail(field))

Quoted(field) == <<Quote>> \o DoubleQuotes(field) \o <<Quote>>

\* a field written without quotes where it has neither quote nor comma
Plain(field) ==
    IF \E i \in 1..Len(field) : field[i] \in {Quote, Comma}
    THEN Quoted(field) ELSE field

RECURSIVE JoinFields(_)
JoinFields(written) ==
    IF Len(written) = 1 THEN written[1]
    ELSE written[1] \o <<Comma>> \o JoinFields(Tail(written))

QuotedLine(fields) == JoinFields([i \in 1..Len(fields) |-> Quoted(fields[i])])

PlainLine(fields) == JoinFields([i \in 1..Len(fields) |-> Plain(fields[i])])

FieldLists ==
    UNION { [1..k -> StringsUpTo(MaxFieldLen)] : k \in 1..2 }

\* every short line, and the lines that hold one or two fields
CsvLines ==
    StringsUpTo(MaxLineLen)
        \cup { QuotedLine(fields) : fields \in FieldLists }
        \cup { PlainLine(fields) : fields \in FieldLists }

CsvInit ==
    /\ now = 0
    /\ SchedIdle
    /\ StoreIdle
    /\ QueueIdle
    /\ SessionIdle
    /\ StatsIdle
    /\ csvLine \in CsvLines
    /\ csvFields = NoCall
    /\ DiscoveryIdle

Parse ==
    /\ ~csvFields.made
    /\ csvFields' = [made |-> TRUE, line |-> csvLine, fields |-> parseCSVLine(csvLine)]
    /\ UNCHANGED <<notCsv, csvLine>>

CsvNext == Parse

SpecCsv == CsvInit /\ [][CsvNext]_vars

-----------------------------------------------------------------------------
(* The discovery of the card sets: calls that overlap, answers in any order *)

MaxDiscoveryCalls == 5
MaxPending == 2
MaxExpiries == 3

DiscoveryInit ==
    /\ now = 0
    /\ SchedIdle
    /\ StoreIdle
    /\ QueueIdle
    /\ SessionIdle
    /\ StatsIdle
    /\ CsvIdle
    /\ DiscoveryIdle

\* what a step of a call leaves behind: the call waits on a request it has
\* just made, or it has returned
Proceed(r, at, others, calls) ==
    /\ manager' = r.manager
    /\ discovery' =
          [discovery EXCEPT
              !.calls = calls,
              !.pending = IF r.waits = "done" THEN others
                          ELSE Append(others, [at |-> at, waits |-> r.waits,
                                               file |-> r.file, sets |-> r.sets]),
              !.returned = IF r.waits = "done"
                           THEN [made |-> TRUE, list |-> r.returned]
                           ELSE @,
              !.requestAtLimit =
                  @ \/ (r.waits # "done" /\ r.manager.retryCount >= maxRetries)]

CallGetAvailableCardSets ==
    /\ discovery.calls < MaxDiscoveryCalls
    /\ Len(discovery.pending) < MaxPending
    /\ Proceed(getAvailableCardSets(manager, now), now, discovery.pending,
               discovery.calls + 1)
    /\ UNCHANGED <<now, notDiscovery>>

Answered(i, answer) ==
    /\ i \in 1..Len(discovery.pending)
    /\ Proceed(Continue(manager, discovery.pending[i], answer),
               discovery.pending[i].at,
               SubSeq(discovery.pending, 1, i - 1)
                   \o SubSeq(discovery.pending, i + 1, Len(discovery.pending)),
               discovery.calls)
    /\ UNCHANGED <<now, notDiscovery>>

ClearCache ==
    /\ manager # NewManager
    /\ manager' = clearAvailableCardSetsCache(manager)
    /\ UNCHANGED <<now, notDiscovery, discovery>>

\* the cache timeout passes
CacheExpires ==
    /\ now < MaxExpiries * cacheTimeout
    /\ now' = now + cacheTimeout
    /\ UNCHANGED <<notDiscovery, discoveryVars>>

DiscoveryNext ==
    \/ CallGetAvailableCardSets
    \/ \E i \in 1..MaxPending, answer \in Answers : Answered(i, answer)
    \/ ClearCache
    \/ CacheExpires

SpecDiscovery == DiscoveryInit /\ [][DiscoveryNext]_vars

-----------------------------------------------------------------------------
(* What the last call was *)

Returned == lastCall.made /\ ~lastCall.threw
ValidCall == lastCall.made /\ lastCall.difficulty \in Difficulties
Successful == lastCall.made /\ lastCall.difficulty \in {"hard", "good", "easy"}

-----------------------------------------------------------------------------
(* Properties *)

\* C1: for every input state with a numeric easeFactor and every rating of
\* the four, the returned easeFactor is within [1.3, 3.0].
C1_EaseWithinBounds ==
    (ValidCall /\ Returned /\ IsNum(lastCall.input.easeFactor)) =>
        /\ IsNum(lastCall.output.easeFactor)
        /\ lastCall.output.easeFactor.v >= 130
        /\ lastCall.output.easeFactor.v <= 300

\* C2: after a call with any of the four ratings, the returned interval
\* (rounded to 2 decimals) is strictly greater than 0.
C2_IntervalPositive ==
    (ValidCall /\ Returned) =>
        /\ IsNum(lastCall.output.interval)
        /\ lastCall.output.interval.v > 0

\* C3: the returned repetitions is 0 if and only if the rating is again; for
\* hard, good and easy it is the prior repetitions plus 1, so at least 1.
C3_RepetitionsReset ==
    (ValidCall /\ Returned) =>
        /\ (lastCall.output.repetitions = Num(0)) <=> (lastCall.difficulty = "again")
        /\ lastCall.difficulty # "again" =>
              /\ lastCall.output.repetitions =
                    Num(OrZero(lastCall.input.repetitions) + 1)
              /\ lastCall.output.repetitions.v >= 1

\* C3 witness: a card with 3 repetitions was rated again and came back with 0
C3_Witness ==
    /\ Returned
    /\ lastCall.difficulty = "again"
    /\ lastCall.input.repetitions = Num(3)
    /\ lastCall.output.repetitions = Num(0)

\* C4: every call adds exactly 1 to totalReviews; it adds exactly 1 to
\* correctReviews for good and easy and leaves it as it was for again and hard.
C4_ReviewCounts ==
    (ValidCall /\ Returned) =>
        /\ lastCall.output.totalReviews =
              Num(OrZero(lastCall.input.totalReviews) + 1)
        /\ lastCall.difficulty \in {"good", "easy"} =>
              lastCall.output.correctReviews =
                 Num(OrZero(lastCall.input.correctReviews) + 1)
        /\ lastCall.difficulty \in {"again", "hard"} =>
              lastCall.output.correctReviews = lastCall.input.correctReviews

\* C4 witness: the second review of a card, rated hard after a good one
C4_Witness ==
    /\ Returned
    /\ lastCall.difficulty = "hard"
    /\ lastCall.input.totalReviews = Num(1)
    /\ lastCall.input.correctReviews = Num(1)
    /\ lastCall.output.totalReviews = Num(2)
    /\ lastCall.output.correctReviews = Num(1)

\* C5: a call with a rating outside the four is rejected with an error and
\* returns no state.
C5_InvalidRatingRejected ==
    (lastCall.made /\ lastCall.difficulty \notin Difficulties) => lastCall.threw

\* C6: when the input state has no easeFactor, every rating is computed as
\* if easeFactor were 2.5: the call returns, the easeFactor is 2.3 for again
\* and hard, 2.5 for good, 2.65 for easy, and the interval is the one the
\* same state with easeFactor 2.5 gets.
C6_MissingEaseDefaults ==
    (ValidCall /\ lastCall.input.easeFactor = Undefined) =>
        /\ ~lastCall.threw
        /\ lastCall.output.easeFactor =
              CASE lastCall.difficulty \in {"again", "hard"} -> Num(230)
                [] lastCall.difficulty = "good" -> Num(250)
                [] lastCall.difficulty = "easy" -> Num(265)
        /\ lastCall.output.interval =
              updateCardState([lastCall.input EXCEPT !.easeFactor = Num(250)],
                              lastCall.difficulty, lastCall.at).state.interval

\* the presets of the first and of the second successful review, in ticks
\* (C8): 1/240, 1/144 and 4 days, then 0.25, 1 and 4 days
C8_FirstPreset(difficulty) ==
    CASE difficulty = "hard" -> 3750
      [] difficulty = "good" -> 6250
      [] difficulty = "easy" -> 3600000

C8_SecondStep(difficulty) ==
    CASE difficulty = "hard" -> 225000
      [] difficulty = "good" -> 900000
      [] difficulty = "easy" -> 3600000

C9_Multiplier(difficulty) ==
    CASE difficulty = "hard" -> 8
      [] difficulty = "good" -> 10
      [] difficulty = "easy" -> 13

\* C9: for hard, good and easy with incremented repetitions of 3 or more,
\* the new interval is previous interval * easeFactor * multiplier, with the
\* easeFactor the state had before this call changed it; the returned
\* interval is that product rounded to hundredths of a day.
C9_MatureProduct ==
    (Successful /\ Returned /\ lastCall.output.repetitions.v >= 3) =>
        LET product == lastCall.input.interval.v * lastCall.input.easeFactor.v
                          * C9_Multiplier(lastCall.difficulty)
        IN  /\ IsNum(lastCall.input.interval)
            /\ IsNum(lastCall.input.easeFactor)
            /\ lastCall.rawInterval = Num(9 * product)
            /\ lastCall.output.interval = Num((product + 500) \div 1000)

\* C9 witness: repetitions 3, interval 10, ease 2.0, rated good: interval
\* 20 and ease 2.0
C9_Witness ==
    /\ Returned
    /\ lastCall.difficulty = "good"
    /\ lastCall.input.repetitions = Num(3)
    /\ lastCall.input.interval = Num(1000)
    /\ lastCall.input.easeFactor = Num(200)
    /\ lastCall.output.interval = Num(2000)
    /\ lastCall.output.easeFactor = Num(200)

\* C10: for an input easeFactor e within [1.3, 3.0] the returned easeFactor
\* is min(3.0, e + 0.15) for easy, max(1.3, e - 0.2) for hard and for again,
\* and e for good.
C10_EaseUpdate ==
    (ValidCall /\ Returned /\ IsNum(lastCall.input.easeFactor)
       /\ lastCall.input.easeFactor.v >= 130
       /\ lastCall.input.easeFactor.v <= 300) =>
        LET e == lastCall.input.easeFactor.v
        IN  lastCall.output.easeFactor =
              CASE lastCall.difficulty = "easy" ->
                      Num(IF e + 15 < 300 THEN e + 15 ELSE 300)
                [] lastCall.difficulty \in {"hard", "again"} ->
                      Num(IF e - 20 > 130 THEN e - 20 ELSE 130)
                [] lastCall.difficulty = "good" -> Num(e)

\* C10 witness: an easy rating at ease 2.9 is capped at 3.0
C10_Witness ==
    /\ Returned
    /\ lastCall.difficulty = "easy"
    /\ lastCall.input.easeFactor = Num(290)
    /\ lastCall.output.easeFactor = Num(300)

\* C11: the returned dueDate is the calendar date of now + new interval,
\* with the interval as it is before the rounding to 2 decimals and with the
\* time of day dropped.
C11_DueDateFromUnroundedInterval ==
    (ValidCall /\ Returned) =>
        lastCall.output.dueDate =
            IsoDate(19722 + (lastCall.at + lastCall.rawInterval.v) \div 900000)

\* C11 witness: a never-reviewed card rated easy at 2024-01-01T00:00Z gets
\* interval 4 and dueDate 2024-01-05
C11_Witness ==
    /\ Returned
    /\ lastCall.difficulty = "easy"
    /\ lastCall.input.repetitions = Num(0)
    /\ Today(lastCall.at) = <<2024, 1, 1>>
    /\ lastCall.output.interval = Num(400)
    /\ lastCall.output.dueDate = <<2024, 1, 5>>

\* the last call set an interval of 1 minute (again) or of 10 minutes (a
\* first good)
C12_ShortInterval ==
    /\ ValidCall /\ Returned
    /\ \/ lastCall.difficulty = "again"
       \/ lastCall.difficulty = "good" /\ lastCall.output.repetitions = Num(1)

\* C12 as stated: after an again or a first good the dueDate is the calendar
\* date of now, at every time of day.
C12_DueSameDay ==
    C12_ShortInterval => lastCall.output.dueDate = Today(lastCall.at)

\* C12 amended: after an again or a first good the dueDate is the calendar
\* date of now when now + interval is still before the next UTC midnight,
\* and the following date when it is not.
C12_DueSameDayUnlessMidnight ==
    C12_ShortInterval =>
        LET minutes == IF lastCall.difficulty = "again" THEN 1 ELSE 10
            left    == 900000 - (lastCall.at % 900000)
        IN  lastCall.output.dueDate =
               IF 625 * minutes < left
               THEN Today(lastCall.at)
               ELSE IsoDate(DateOf(lastCall.at) + 1)

\* C12 witness: a card rated again in the last minute of 2023-12-31 is due
\* on 2024-01-01
C12_Witness ==
    /\ Returned
    /\ lastCall.difficulty = "again"
    /\ Today(lastCall.at) = <<2023, 12, 31>>
    /\ lastCall.output.dueDate = <<2024, 1, 1>>

C15_NoLostUpdate ==
    \A k \in CardKeys : StoredTotal(store, k) = expectedReviews[k]

\* C16: a stored card state is removed from the store by no operation other
\* than an explicit reset, import or clear-all.
C16_RemovedOnlyExplicitly ==
    [][(\A k \in DOMAIN store : k \in DOMAIN store')
         \/ lastOp' \in {"reset", "import", "clearAll"}]_vars

\* C17: when persisting the new state fails, the caller of
\* FlashcardManager.updateCardState gets an error, not the new state.
C17_WriteFailureSurfaced ==
    (lastUpdate.made /\ ~lastUpdate.saved) => lastUpdate.rejected

\* C20: once a card state has been persisted, no sequence of updateCardState
\* calls changes its createdAt.
C20_CreatedAtImmutable ==
    \A k \in DOMAIN store \cap DOMAIN firstCreated :
        store[k].createdAt = firstCreated[k]

\* C18: getDueCards returns the sub-list of its input made of the cards
\* whose dueDate is today or earlier; a never-reviewed card whose dueDate is
\* today is always in it.
C18_DueCardsSelected ==
    (queueOut.made /\ queueOut.op = "getDueCards") =>
        /\ queueOut.output =
              SelectSeq(queueOut.input,
                        LAMBDA card : DayOfIso(card.state.dueDate)
                                         <= 19722 + queueOut.at \div 900000)
        /\ \A i \in 1..Len(queueOut.input) :
              (/\ queueOut.input[i].state.repetitions = Num(0)
               /\ queueOut.input[i].state.dueDate = Today(queueOut.at))
              => \E j \in 1..Len(queueOut.output) :
                    queueOut.output[j] = queueOut.input[i]

\* C18 witness: on 2024-01-01, of three cards due on 2023-12-31, 2024-01-02
\* and 2024-01-01, the first and the third are returned
C18_Witness ==
    /\ queueOut.made /\ queueOut.op = "getDueCards"
    /\ Today(queueOut.at) = <<2024, 1, 1>>
    /\ Len(queueOut.input) = 3
    /\ queueOut.input[1].state.dueDate = <<2023, 12, 31>>
    /\ queueOut.input[2].state.dueDate = <<2024, 1, 2>>
    /\ queueOut.input[3].state.dueDate = <<2024, 1, 1>>
    /\ Len(queueOut.output) = 2
    /\ queueOut.output[1].id = "c1"
    /\ queueOut.output[2].id = "c3"

\* the sort keys of C19: days overdue at time t, and the easeFactor, a
\* missing one counting as the default 2.5
DaysOverdueAt(card, t) == (19722 + t \div 900000) - DayOfIso(card.state.dueDate)
EaseKey(card) ==
    IF IsNum(card.state.easeFactor) THEN card.state.easeFactor.v ELSE 250

\* the position of a card in an array of cards with distinct ids
PositionIn(cards, id) == CHOOSE i \in 1..Len(cards) : cards[i].id = id

\* C19: sortCardsByPriority returns a permutation of its input, ordered by
\* descending days overdue, then by ascending easeFactor; cards equal on
\* both keys keep their input order.
C19_SortedByPriority ==
    (queueOut.made /\ queueOut.op = "sortCardsByPriority") =>
        LET in  == queueOut.input
            out == queueOut.output
            t   == queueOut.at
        IN  /\ Len(out) = Len(in)
            /\ \A i \in 1..Len(in) : \E j \in 1..Len(out) : out[j] = in[i]
            /\ \A i, j \in 1..Len(out) :
                  i < j =>
                     \/ DaysOverdueAt(out[i], t) > DaysOverdueAt(out[j], t)
                     \/ /\ DaysOverdueAt(out[i], t) = DaysOverdueAt(out[j], t)
                        /\ EaseKey(out[i]) < EaseKey(out[j])
                     \/ /\ DaysOverdueAt(out[i], t) = DaysOverdueAt(out[j], t)
                        /\ EaseKey(out[i]) = EaseKey(out[j])
                        /\ PositionIn(in, out[i].id) < PositionIn(in, out[j].id)

\* C19 witness: three cards come back in the order c3, c1, c2: c3 is the
\* most overdue, c1 and c2 are equal on both keys
C19_Witness ==
    /\ queueOut.made /\ queueOut.op = "sortCardsByPriority"
    /\ Len(queueOut.input) = 3
    /\ queueOut.input[1].state = queueOut.input[2].state
    /\ queueOut.input[3].state.dueDate = <<2023, 9, 30>>
    /\ queueOut.input[1].state.dueDate = <<2023, 12, 30>>
    /\ queueOut.output[1].id = "c3"
    /\ queueOut.output[2].id = "c1"
    /\ queueOut.output[3].id = "c2"

\* C14: every rating event updates exactly the card that is on display when
\* the event occurs, no card of the queue is rated before it has been
\* displayed, and a session that reaches the end of its queue has displayed
\* every card of it.
C14_RatesDisplayedCard ==
    /\ lastAnswer.made => lastAnswer.updated = <<lastAnswer.displayed>>
    /\ sessionLog.rated \subseteq sessionLog.shown
    /\ sessionLog.ended = "queue" =>
          \A i \in 1..Len(sessionLog.queue) :
             sessionLog.queue[i].id \in sessionLog.shown

\* the label of a rating button after the last preview
ButtonLabel(difficulty) == formatInterval(preview.result.intervals[difficulty])

\* C24: for a new card the preview intervals on the rating buttons are the
\* documented defaults: again 1 minute, hard 6 minutes, good 10 minutes,
\* easy 4 days.
C24_PreviewDefaults ==
    (preview.made /\ preview.input.repetitions = Num(0)
                  /\ preview.input.totalReviews = Num(0)) =>
        /\ ~preview.result.threw
        /\ ButtonLabel("again") = [n |-> Num(1), unit |-> "m"]
        /\ ButtonLabel("hard") = [n |-> Num(6), unit |-> "m"]
        /\ ButtonLabel("good") = [n |-> Num(10), unit |-> "m"]
        /\ ButtonLabel("easy") = [n |-> Num(4), unit |-> "d"]

\* C25: a card rated again at time t is not due at any time before t + 1
\* minute and is due from t + 1 minute on.
C25_AgainDueAfterOneMinute ==
    (Returned /\ lastCall.difficulty = "again") =>
        (isCardDue(lastCall.output, now) <=> now >= lastCall.at + 625)

\* C26: from every state reachable from the default state, a hard, good or
\* easy rating returns an interval not smaller than the interval before.
C26_SuccessKeepsInterval ==
    (Successful /\ Returned) =>
        /\ IsNum(lastCall.output.interval)
        /\ lastCall.output.interval.v >= lastCall.input.interval.v

\* C29: in the mature phase, for a positive interval and any easeFactor, a
\* hard rating returns what the product alone gives (the floor guard changes
\* nothing), and the result is not below 0.8 times the interval before.
C29_HardFloorNoOp ==
    (/\ Returned
     /\ lastCall.difficulty = "hard"
     /\ OrZero(lastCall.input.repetitions) >= 2
     /\ IsNum(lastCall.input.interval)
     /\ lastCall.input.interval.v > 0) =>
        /\ lastCall.output.interval =
              RoundInterval(MatureInterval(lastCall.input.interval,
                                           lastCall.input.easeFactor, "hard"))
        /\ 10 * lastCall.output.interval.v >= 8 * lastCall.input.interval.v

\* C30: a single click on a rating button makes exactly one scheduler update
\* of exactly one card, in every study session of a page load.
C30_OneUpdatePerClick ==
    (lastAnswer.made /\ lastAnswer.by = "click") => Len(lastAnswer.updated) = 1

\* the number of cards of an array that satisfy a test
NumberOf(cards, Test(_)) == Cardinality({ i \in 1..Len(cards) : Test(cards[i]) })

\* repetitions of a card, a missing field counting as 0
RepsOf(card) ==
    IF IsNum(card.state.repetitions) THEN card.state.repetitions.v ELSE 0

\* C21: getForecast(cards, days) returns exactly `days` entries, one per
\* consecutive calendar day starting today; each entry counts the cards whose
\* dueDate is that day, and newCards + reviewCards = cardCount.
C21_ForecastPerDay ==
    (queueOut.made /\ queueOut.op = "getForecast") =>
        LET out   == queueOut.output
            today == 19722 + queueOut.at \div 900000
        IN  /\ Len(out) = queueOut.days
            /\ \A i \in 1..Len(out) :
                  /\ out[i].date = IsoDate(today + i - 1)
                  /\ out[i].cardCount =
                        NumberOf(queueOut.input,
                                 LAMBDA card : card.state.dueDate = IsoDate(today + i - 1))
                  /\ out[i].newCards + out[i].reviewCards = out[i].cardCount

\* C22: getStatistics counts every card in exactly one of new (repetitions
\* 0), learning (1 or 2), review (>= 3, interval < 21) and mature (>= 3,
\* interval >= 21); the four counts add up to totalCards, and
\* overdue <= dueToday <= totalCards.
C22_StatisticsPartition ==
    (queueOut.made /\ queueOut.op = "getStatistics") =>
        LET out == queueOut.output
            in  == queueOut.input
        IN  /\ out.totalCards = Len(in)
            /\ out.newCards = NumberOf(in, LAMBDA card : RepsOf(card) = 0)
            /\ out.learningCards = NumberOf(in, LAMBDA card : RepsOf(card) \in {1, 2})
            /\ out.reviewCards =
                  NumberOf(in, LAMBDA card : /\ RepsOf(card) >= 3
                                             /\ card.state.interval.v < 2100)
            /\ out.matureCards =
                  NumberOf(in, LAMBDA card : /\ RepsOf(card) >= 3
                                             /\ card.state.interval.v >= 2100)
            /\ out.newCards + out.learningCards + out.reviewCards + out.matureCards
                  = out.totalCards
            /\ out.overdue <= out.dueToday
            /\ out.dueToday <= out.totalCards

\* C22 witness: a learning card due today, an overdue mature card and a
\* review card due in two days
C22_Witness ==
    /\ queueOut.made /\ queueOut.op = "getStatistics"
    /\ queueOut.output.totalCards = 3
    /\ queueOut.output.newCards = 0
    /\ queueOut.output.learningCards = 1
    /\ queueOut.output.reviewCards = 1
    /\ queueOut.output.matureCards = 1
    /\ queueOut.output.dueToday = 2
    /\ queueOut.output.overdue = 1

\* the categories of calculateOptimalSession, by days and repetitions
IsOverdueAt(card, t) == DayOfIso(card.state.dueDate) < 19722 + t \div 900000

\* C23: calculateOptimalSession returns at most maxCards =
\* floor(availableMinutes * 60 / avgTimePerCard) cards: first overdue cards,
\* at most floor(0.5 * maxCards); then new cards, at most floor(0.3 * the
\* space left); then review cards up to the space left; each part takes the
\* cards of its kind in input order, and the breakdown adds up to totalCards.
C23_SessionFilledInOrder ==
    (queueOut.made /\ queueOut.op = "calculateOptimalSession") =>
        LET out      == queueOut.output
            in       == queueOut.input
            t        == queueOut.at
            b        == out.breakdown
            rec      == out.recommendedCards
            maxCards == (queueOut.availableMinutes * 60) \div queueOut.avgTimePerCard
            overdue  == SelectSeq(in, LAMBDA card : IsOverdueAt(card, t))
            new      == SelectSeq(in, LAMBDA card : RepsOf(card) = 0)
            review   == SelectSeq(in, LAMBDA card : /\ RepsOf(card) > 0
                                                    /\ ~IsOverdueAt(card, t))
            Least(x, y) == IF x < y THEN x ELSE y
        IN  /\ out.totalCards = Len(rec)
            /\ Len(rec) <= maxCards
            /\ b.overdue = Least(Len(overdue), maxCards \div 2)
            /\ b.new = Least(Len(new), (3 * (maxCards - b.overdue)) \div 10)
            /\ b.review = Least(Len(review), maxCards - b.overdue - b.new)
            /\ b.overdue + b.new + b.review = out.totalCards
            /\ rec = SubSeq(overdue, 1, b.overdue) \o SubSeq(new, 1, b.new)
                        \o SubSeq(review, 1, b.review)

\* C23 witness: six cards fit; one overdue, one new and one review card are
\* recommended, in that order
C23_Witness ==
    /\ queueOut.made /\ queueOut.op = "calculateOptimalSession"
    /\ (queueOut.availableMinutes * 60) \div queueOut.avgTimePerCard = 6
    /\ queueOut.output.breakdown = [overdue |-> 1, new |-> 1, review |-> 1]
    /\ Len(queueOut.input) = 3
    /\ queueOut.output.recommendedCards[1] = queueOut.input[3]
    /\ queueOut.output.recommendedCards[2] = queueOut.input[2]
    /\ queueOut.output.recommendedCards[3] = queueOut.input[1]

\* C27: the first recordStudySession sets streakDays to 1; a session on the
\* day after the last study day adds 1; a further session on the same day
\* changes nothing; a session after a longer gap sets it to 1 again.
C27_StreakCountsDays ==
    (lastRecord.made /\ lastRecord.saved) =>
        LET before == lastRecord.before
            after  == lastRecord.after
            today  == 19722 + lastRecord.at \div 900000
        IN  IF before.lastStudyDate = NoDate
            THEN after.streakDays = Num(1)
            ELSE IF today - DayOfIso(before.lastStudyDate) = 1
            THEN after.streakDays = Num(before.streakDays.v + 1)
            ELSE IF today - DayOfIso(before.lastStudyDate) = 0
            THEN after.streakDays = before.streakDays
            ELSE after.streakDays = Num(1)

\* the number of quotes of a line before position i: a position is outside
\* quotes when it is even
QuotesBefore(line, i) == Cardinality({ j \in 1..(i - 1) : line[j] = Quote })

\* C28: parseCSVLine splits a line at the commas outside double quotes and
\* nowhere else; a field written in quotes, with its quotes doubled, comes
\* back as the field itself, commas and quotes included.
C28_SplitsOutsideQuotes ==
    csvFields.made =>
        /\ Len(csvFields.fields) =
              1 + Cardinality({ i \in 1..Len(csvFields.line) :
                                  /\ csvFields.line[i] = Comma
                                  /\ QuotesBefore(csvFields.line, i) % 2 = 0 })
        /\ \A fields \in FieldLists :
              (\/ csvFields.line = QuotedLine(fields)
               \/ csvFields.line = PlainLine(fields))
              => csvFields.fields = fields

\* C28 witness: the line  ",""",a  gives the two fields  ,"  and  a
C28_Witness ==
    /\ csvFields.made
    /\ csvFields.line = <<Quote, Comma, Quote, Quote, Quote, Comma, "a">>
    /\ csvFields.fields = << <<Comma, Quote>>, <<"a">> >>

\* C35: from every card state reachable from the default state, the four
\* intervals that updateCardState gives for the four ratings are ordered as
\* the ratings are: again <= hard <= good <= easy.
C35_MonotoneInRating ==
    preview.made =>
        /\ ~preview.result.threw
        /\ \A difficulty \in Difficulties : IsNum(preview.result.intervals[difficulty])
        /\ preview.result.intervals["again"].v <= preview.result.intervals["hard"].v
        /\ preview.result.intervals["hard"].v <= preview.result.intervals["good"].v
        /\ preview.result.intervals["good"].v <= preview.result.intervals["easy"].v

\* C35 witness: a card in the mature phase, where the four intervals differ
C35_Witness ==
    /\ preview.made
    /\ preview.input.repetitions.v >= 2
    /\ preview.result.intervals["again"].v < preview.result.intervals["hard"].v
    /\ preview.result.intervals["hard"].v < preview.result.intervals["good"].v
    /\ preview.result.intervals["good"].v < preview.result.intervals["easy"].v

\* C36: from the default card state, after every sequence of calls with the
\* four ratings, every call has returned, totalReviews is the number of
\* calls, and correctReviews and repetitions are between 0 and totalReviews.
C36_CountersFromDefault ==
    /\ IsNum(cardState.totalReviews)
    /\ IsNum(cardState.correctReviews)
    /\ IsNum(cardState.repetitions)
    /\ cardState.correctReviews.v >= 0
    /\ cardState.correctReviews.v <= cardState.totalReviews.v
    /\ cardState.repetitions.v >= 0
    /\ cardState.repetitions.v <= cardState.totalReviews.v
    /\ cardState.totalReviews.v = (IF lastCall.made THEN lastCall.returns ELSE 0)
    /\ lastCall.made => ~lastCall.threw

\* C36 witness: three calls were made, the last one an again after two
\* successful reviews
C36_Witness ==
    /\ Returned
    /\ lastCall.difficulty = "again"
    /\ lastCall.returns = 3
    /\ lastCall.input.repetitions = Num(2)
    /\ cardState.repetitions = Num(0)
    /\ cardState.totalReviews = Num(3)
    /\ cardState.correctReviews.v >= 1

C37_NoCardTwice ==
    (/\ queueOut.made
     /\ queueOut.op = "calculateOptimalSession"
     /\ \A i \in 1..Len(queueOut.input) : isCardDue(queueOut.input[i].state, queueOut.at)
     /\ \A i, j \in 1..Len(queueOut.input) :
           queueOut.input[i].id = queueOut.input[j].id => i = j) =>
        \A i, j \in 1..Len(queueOut.output.recommendedCards) :
            queueOut.output.recommendedCards[i].id = queueOut.output.recommendedCards[j].id
                => i = j

\* C34: a call of FlashcardManager.updateCardState for a card changes the
\* stored entry of that card only: the stored state of every other card, of
\* the same and of every other card set, is what it was before the call, and
\* so are the statistics.
C34_OnlyOneEntryChanges ==
    (lastUpdate.made /\ lastOp = "update") =>
        /\ \A k \in (DOMAIN lastUpdate.before \cup DOMAIN store) \ {lastUpdate.key} :
              /\ k \in DOMAIN lastUpdate.before
              /\ k \in DOMAIN store
              /\ store[k] = lastUpdate.before[k]
        /\ stats = lastUpdate.statsBefore

\* the scheduler updates of the session: the calls of handleAnswer that
\* reached a card
SessionUpdates ==
    Cardinality({ i \in 1..Len(sessionLog.updated) : sessionLog.updated[i] # "undefined" })

\* C31: the statistics of a study session are recorded exactly once, at its
\* end (by the last card, by the End Session button, with or without a
\* transition pending): one call of recordStudySession, totalSessions grows
\* by one, and the recorded cardsStudied is correct + wrong and is the number
\* of scheduler updates of the session.
C31_RecordedOncePerSession ==
    /\ studySession.active => sessionLog.records = 0
    /\ sessionLog.ended # "no" =>
          /\ sessionLog.records = 1
          /\ lastRecord.made
          /\ lastRecord.after.totalSessions = lastRecord.before.totalSessions + 1
          /\ lastRecord.sessionData.cardsStudied =
                lastRecord.sessionData.correctAnswers
                    + lastRecord.sessionData.wrongAnswers
          /\ lastRecord.sessionData.cardsStudied = SessionUpdates

\* C32: in a session whose rating events are each handled to completion (none
\* arrives while a transition is pending), no rating is applied past the end
\* of the queue, the queue ends the session only after as many rating events
\* as it has cards, and once that many events are handled the session is
\* over: studySession is null and the view is home.
C32_SessionTerminates ==
    ~sessionLog.overlapped =>
        /\ \A i \in 1..Len(sessionLog.updated) : sessionLog.updated[i] # "undefined"
        /\ sessionLog.ended = "queue" => sessionLog.events = Len(sessionLog.queue)
        /\ (/\ sessionLog.queue # <<>>
            /\ sessionLog.events = Len(sessionLog.queue)
            /\ transitions = <<>>) =>
              /\ ~studySession.active
              /\ currentView = "home"

\* C38: under every sequence and interleaving of calls of
\* getAvailableCardSets, retryCount never exceeds maxRetries, no request is
\* made while retryCount has reached maxRetries, and every call returns a
\* list that is not empty.
C38_RetriesBounded ==
    /\ manager.retryCount <= maxRetries
    /\ ~discovery.requestAtLimit
    /\ discovery.returned.made => Len(discovery.returned.list) > 0

====
